---- MODULE Spec2Model ----
(***************************************************************************)
(* Model of the ROI-calculator lead-intake backend: the sanitizers, the    *)
(* validators, the lead-scoring engine, the tier assigner and the /submit  *)
(* request handler that chains them; the rate_limit decorator, the         *)
(* SubmissionTracker and the follow-up lookups that surround them.         *)
(*                                                                         *)
(* Representation of Python values (a JSON request body):                  *)
(*   None          [t |-> "null"]                                          *)
(*   True/False    [t |-> "bool", b |-> TRUE]                              *)
(*   int n         [t |-> "int", n |-> n]                                  *)
(*   float         [t |-> "float", k |-> "fin", m |-> m, d |-> d]          *)
(*                 standing for the decimal m * 10^(-d); k is "nan",       *)
(*                 "inf" or "ninf" for the non-finite floats               *)
(*   str           [t |-> "str", s |-> <<"a", "b">>], the tuple of its     *)
(*                 characters, each a one-character string                 *)
(*   list          [t |-> "list", xs |-> <<v1, v2>>]                       *)
(*   dict          [t |-> "dict", kv |-> [key |-> value]], kv a function   *)
(*                 from its keys; a missing key is a key not in DOMAIN kv  *)
(* A call that raises is the record [ok |-> FALSE, exc |-> "ValueError"];  *)
(* a call that returns v is [ok |-> TRUE, v |-> v].                        *)
(***************************************************************************)
EXTENDS Integers, Sequences, FiniteSets, TLC

VARIABLES
    req,          \* the JSON body of the request being handled
    pc,           \* position of submit_roi_form in its body
    data,         \* the handler's local `data`
    validation_result,  \* the handler's local `validation_result`
    lead_score,   \* the handler's local `lead_score`
    tier,         \* the handler's local `tier`
    submission,   \* the handler's local `submission`, the ROISubmission row
    db,           \* committed ROISubmission rows, in commit order
    submission_tracker, \* the SubmissionTracker singleton
    response,     \* the (status, body) the handler returned
    calls,        \* the calls the handler has made so far, in order
    arg,          \* argument of a direct call of a library function
    ret,          \* what that call returned
    called,       \* which library function was called directly
    rate_limit_storage, \* security.py: client_ip -> deque of accepted timestamps
    clock,        \* time.time(), in seconds
    limit,        \* the arguments of the rate_limit(...) that built the wrapper
    threads,      \* each request thread's position and locals in decorated_function
    log,          \* the requests received so far and what became of each
    monitors      \* monitoring.py: the EmailMonitor and HubSpotMonitor counters

vars == <<req, pc, data, validation_result, lead_score, tier, submission, db,
          submission_tracker, response, calls, arg, ret, called,
          rate_limit_storage, clock, limit, threads, log, monitors>>

handler_vars == <<req, pc, data, validation_result, lead_score, tier, submission, db,
                  submission_tracker, response, calls>>

direct_vars == <<arg, ret, called>>

shared_vars == <<rate_limit_storage, clock, limit, threads, log, monitors>>

----------------------------------------------------------------------------
(* Python values *)

None == [t |-> "null"]
PyBool(b) == [t |-> "bool", b |-> b]
PyInt(n) == [t |-> "int", n |-> n]
PyFloat(m, d) == [t |-> "float", k |-> "fin", m |-> m, d |-> d]
NaN == [t |-> "float", k |-> "nan", m |-> 0, d |-> 0]
Inf == [t |-> "float", k |-> "inf", m |-> 0, d |-> 0]
NegInf == [t |-> "float", k |-> "ninf", m |-> 0, d |-> 0]
PyStr(s) == [t |-> "str", s |-> s]
PyList(xs) == [t |-> "list", xs |-> xs]
PyDict(kv) == [t |-> "dict", kv |-> kv]
EmptyDict == PyDict(<<>>)

Return(v) == [ok |-> TRUE, v |-> v]
Raise(e) == [ok |-> FALSE, exc |-> e]

\* bool(x): Python truthiness
Truthy(x) ==
    CASE x.t = "null" -> FALSE
      [] x.t = "bool" -> x.b
      [] x.t = "int" -> x.n # 0
      [] x.t = "float" -> ~(x.k = "fin" /\ x.m = 0)
      [] x.t = "str" -> Len(x.s) > 0
      [] x.t = "list" -> Len(x.xs) > 0
      [] x.t = "dict" -> DOMAIN x.kv # {}

\* d.get(key, default) on a dict value
Get(d, key, default) == IF key \in DOMAIN d.kv THEN d.kv[key] ELSE default

----------------------------------------------------------------------------
(* Characters and strings *)

Lower == {"a","b","c","d","e","f","g","h","i","j","k","l","m",
          "n","o","p","q","r","s","t","u","v","w","x","y","z"}
Upper == {"A","B","C","D","E","F","G","H","I","J","K","L","M",
          "N","O","P","Q","R","S","T","U","V","W","X","Y","Z"}
Letter == Lower \cup Upper
Digit == {"0","1","2","3","4","5","6","7","8","9"}
\* the characters str.isspace() holds for: what str.strip() removes and the
\* pattern class \s matches.  Those a TLA+ string cannot spell are written
\* as their Python escape, one character each.
Whitespace ==
    {" ", "\t", "\n", "\r", "\f", "\\v", "\\x1c", "\\x1d", "\\x1e", "\\x1f",
     "\\x85", "\\xa0", "\\u1680", "\\u2000", "\\u2001", "\\u2002", "\\u2003",
     "\\u2004", "\\u2005", "\\u2006", "\\u2007", "\\u2008", "\\u2009",
     "\\u200a", "\\u2028", "\\u2029", "\\u202f", "\\u205f", "\\u3000"}

DigitVal == ("0" :> 0) @@ ("1" :> 1) @@ ("2" :> 2) @@ ("3" :> 3) @@ ("4" :> 4)
            @@ ("5" :> 5) @@ ("6" :> 6) @@ ("7" :> 7) @@ ("8" :> 8) @@ ("9" :> 9)

ToLower == [c \in Upper |->
    CASE c = "A" -> "a" [] c = "B" -> "b" [] c = "C" -> "c" [] c = "D" -> "d"
      [] c = "E" -> "e" [] c = "F" -> "f" [] c = "G" -> "g" [] c = "H" -> "h"
      [] c = "I" -> "i" [] c = "J" -> "j" [] c = "K" -> "k" [] c = "L" -> "l"
      [] c = "M" -> "m" [] c = "N" -> "n" [] c = "O" -> "o" [] c = "P" -> "p"
      [] c = "Q" -> "q" [] c = "R" -> "r" [] c = "S" -> "s" [] c = "T" -> "t"
      [] c = "U" -> "u" [] c = "V" -> "v" [] c = "W" -> "w" [] c = "X" -> "x"
      [] c = "Y" -> "y" [] c = "Z" -> "z"]

\* s.lower()
LowerCase(s) == [i \in 1..Len(s) |-> IF s[i] \in Upper THEN ToLower[s[i]] ELSE s[i]]

\* c repeated n times
Rep(c, n) == [i \in 1..n |-> c]

\* s[:n]
Prefix(s, n) == IF Len(s) <= n THEN s ELSE SubSeq(s, 1, n)

\* s without the characters of `space` at its two ends
Trimmed(s, space) ==
    IF \A i \in 1..Len(s) : s[i] \in space THEN <<>>
    ELSE LET first == CHOOSE i \in 1..Len(s) :
                          s[i] \notin space /\ \A j \in 1..(i-1) : s[j] \in space
             last == CHOOSE i \in 1..Len(s) :
                          s[i] \notin space /\ \A j \in (i+1)..Len(s) : s[j] \in space
         IN SubSeq(s, first, last)

\* s.strip()
Strip(s) == Trimmed(s, Whitespace)

\* the white space of C's isspace(), which int() and float() skip at the
\* two ends of the text they parse
AsciiSpace == {" ", "\t", "\n", "\r", "\f", "\\v"}

\* the ASCII characters str.isspace() holds for and C's isspace() does not
Separators == {"\\x1c", "\\x1d", "\\x1e", "\\x1f"}

\* the characters of Unicode category Nd, those of decimal value v at v + 1:
\* what int() and float() read as the digit v and the pattern class \d
\* matches.  A character outside ASCII is written as its Python escape.
DecimalDigits ==
    <<{"0", "\\u0660", "\\u06f0", "\\u07c0", "\\u0966", "\\u09e6", "\\u0a66",
       "\\u0ae6", "\\u0b66", "\\u0be6", "\\u0c66", "\\u0ce6", "\\u0d66",
       "\\u0de6", "\\u0e50", "\\u0ed0", "\\u0f20", "\\u1040", "\\u1090",
       "\\u17e0", "\\u1810", "\\u1946", "\\u19d0", "\\u1a80", "\\u1a90",
       "\\u1b50", "\\u1bb0", "\\u1c40", "\\u1c50", "\\ua620", "\\ua8d0",
       "\\ua900", "\\ua9d0", "\\ua9f0", "\\uaa50", "\\uabf0", "\\uff10",
       "\\U000104a0", "\\U00010d30", "\\U00011066", "\\U000110f0",
       "\\U00011136", "\\U000111d0", "\\U000112f0", "\\U00011450",
       "\\U000114d0", "\\U00011650", "\\U000116c0", "\\U00011730",
       "\\U000118e0", "\\U00011950", "\\U00011c50", "\\U00011d50",
       "\\U00011da0", "\\U00016a60", "\\U00016ac0", "\\U00016b50",
       "\\U0001d7ce", "\\U0001d7d8", "\\U0001d7e2", "\\U0001d7ec",
       "\\U0001d7f6", "\\U0001e140", "\\U0001e2f0", "\\U0001e950",
       "\\U0001fbf0"},
      {"1", "\\u0661", "\\u06f1", "\\u07c1", "\\u0967", "\\u09e7", "\\u0a67",
       "\\u0ae7", "\\u0b67", "\\u0be7", "\\u0c67", "\\u0ce7", "\\u0d67",
       "\\u0de7", "\\u0e51", "\\u0ed1", "\\u0f21", "\\u1041", "\\u1091",
       "\\u17e1", "\\u1811", "\\u1947", "\\u19d1", "\\u1a81", "\\u1a91",
       "\\u1b51", "\\u1bb1", "\\u1c41", "\\u1c51", "\\ua621", "\\ua8d1",
       "\\ua901", "\\ua9d1", "\\ua9f1", "\\uaa51", "\\uabf1", "\\uff11",
       "\\U000104a1", "\\U00010d31", "\\U00011067", "\\U000110f1",
       "\\U00011137", "\\U000111d1", "\\U000112f1", "\\U00011451",
       "\\U000114d1", "\\U00011651", "\\U000116c1", "\\U00011731",
       "\\U000118e1", "\\U00011951", "\\U00011c51", "\\U00011d51",
       "\\U00011da1", "\\U00016a61", "\\U00016ac1", "\\U00016b51",
       "\\U0001d7cf", "\\U0001d7d9", "\\U0001d7e3", "\\U0001d7ed",
       "\\U0001d7f7", "\\U0001e141", "\\U0001e2f1", "\\U0001e951",
       "\\U0001fbf1"},
      {"2", "\\u0662", "\\u06f2", "\\u07c2", "\\u0968", "\\u09e8", "\\u0a68",
       "\\u0ae8", "\\u0b68", "\\u0be8", "\\u0c68", "\\u0ce8", "\\u0d68",
       "\\u0de8", "\\u0e52", "\\u0ed2", "\\u0f22", "\\u1042", "\\u1092",
       "\\u17e2", "\\u1812", "\\u1948", "\\u19d2", "\\u1a82", "\\u1a92",
       "\\u1b52", "\\u1bb2", "\\u1c42", "\\u1c52", "\\ua622", "\\ua8d2",
       "\\ua902", "\\ua9d2", "\\ua9f2", "\\uaa52", "\\uabf2", "\\uff12",
       "\\U000104a2", "\\U00010d32", "\\U00011068", "\\U000110f2",
       "\\U00011138", "\\U000111d2", "\\U000112f2", "\\U00011452",
       "\\U000114d2", "\\U00011652", "\\U000116c2", "\\U00011732",
       "\\U000118e2", "\\U00011952", "\\U00011c52", "\\U00011d52",
       "\\U00011da2", "\\U00016a62", "\\U00016ac2", "\\U00016b52",
       "\\U0001d7d0", "\\U0001d7da", "\\U0001d7e4", "\\U0001d7ee",
       "\\U0001d7f8", "\\U0001e142", "\\U0001e2f2", "\\U0001e952",
       "\\U0001fbf2"},
      {"3", "\\u0663", "\\u06f3", "\\u07c3", "\\u0969", "\\u09e9", "\\u0a69",
       "\\u0ae9", "\\u0b69", "\\u0be9", "\\u0c69", "\\u0ce9", "\\u0d69",
       "\\u0de9", "\\u0e53", "\\u0ed3", "\\u0f23", "\\u1043", "\\u1093",
       "\\u17e3", "\\u1813", "\\u1949", "\\u19d3", "\\u1a83", "\\u1a93",
       "\\u1b53", "\\u1bb3", "\\u1c43", "\\u1c53", "\\ua623", "\\ua8d3",
       "\\ua903", "\\ua9d3", "\\ua9f3", "\\uaa53", "\\uabf3", "\\uff13",
       "\\U000104a3", "\\U00010d33", "\\U00011069", "\\U000110f3",
       "\\U00011139", "\\U000111d3", "\\U000112f3", "\\U00011453",
       "\\U000114d3", "\\U00011653", "\\U000116c3", "\\U00011733",
       "\\U000118e3", "\\U00011953", "\\U00011c53", "\\U00011d53",
       "\\U00011da3", "\\U00016a63", "\\U00016ac3", "\\U00016b53",
       "\\U0001d7d1", "\\U0001d7db", "\\U0001d7e5", "\\U0001d7ef",
       "\\U0001d7f9", "\\U0001e143", "\\U0001e2f3", "\\U0001e953",
       "\\U0001fbf3"},
      {"4", "\\u0664", "\\u06f4", "\\u07c4", "\\u096a", "\\u09ea", "\\u0a6a",
       "\\u0aea", "\\u0b6a", "\\u0bea", "\\u0c6a", "\\u0cea", "\\u0d6a",
       "\\u0dea", "\\u0e54", "\\u0ed4", "\\u0f24", "\\u1044", "\\u1094",
       "\\u17e4", "\\u1814", "\\u194a", "\\u19d4", "\\u1a84", "\\u1a94",
       "\\u1b54", "\\u1bb4", "\\u1c44", "\\u1c54", "\\ua624", "\\ua8d4",
       "\\ua904", "\\ua9d4", "\\ua9f4", "\\uaa54", "\\uabf4", "\\uff14",
       "\\U000104a4", "\\U00010d34", "\\U0001106a", "\\U000110f4",
       "\\U0001113a", "\\U000111d4", "\\U000112f4", "\\U00011454",
       "\\U000114d4", "\\U00011654", "\\U000116c4", "\\U00011734",
       "\\U000118e4", "\\U00011954", "\\U00011c54", "\\U00011d54",
       "\\U00011da4", "\\U00016a64", "\\U00016ac4", "\\U00016b54",
       "\\U0001d7d2", "\\U0001d7dc", "\\U0001d7e6", "\\U0001d7f0",
       "\\U0001d7fa", "\\U0001e144", "\\U0001e2f4", "\\U0001e954",
       "\\U0001fbf4"},
      {"5", "\\u0665", "\\u06f5", "\\u07c5", "\\u096b", "\\u09eb", "\\u0a6b",
       "\\u0aeb", "\\u0b6b", "\\u0beb", "\\u0c6b", "\\u0ceb", "\\u0d6b",
       "\\u0deb", "\\u0e55", "\\u0ed5", "\\u0f25", "\\u1045", "\\u1095",
       "\\u17e5", "\\u1815", "\\u194b", "\\u19d5", "\\u1a85", "\\u1a95",
       "\\u1b55", "\\u1bb5", "\\u1c45", "\\u1c55", "\\ua625", "\\ua8d5",
       "\\ua905", "\\ua9d5", "\\ua9f5", "\\uaa55", "\\uabf5", "\\uff15",
       "\\U000104a5", "\\U00010d35", "\\U0001106b", "\\U000110f5",
       "\\U0001113b", "\\U000111d5", "\\U000112f5", "\\U00011455",
       "\\U000114d5", "\\U00011655", "\\U000116c5", "\\U00011735",
       "\\U000118e5", "\\U00011955", "\\U00011c55", "\\U00011d55",
       "\\U00011da5", "\\U00016a65", "\\U00016ac5", "\\U00016b55",
       "\\U0001d7d3", "\\U0001d7dd", "\\U0001d7e7", "\\U0001d7f1",
       "\\U0001d7fb", "\\U0001e145", "\\U0001e2f5", "\\U0001e955",
       "\\U0001fbf5"},
      {"6", "\\u0666", "\\u06f6", "\\u07c6", "\\u096c", "\\u09ec", "\\u0a6c",
       "\\u0aec", "\\u0b6c", "\\u0bec", "\\u0c6c", "\\u0cec", "\\u0d6c",
       "\\u0dec", "\\u0e56", "\\u0ed6", "\\u0f26", "\\u1046", "\\u1096",
       "\\u17e6", "\\u1816", "\\u194c", "\\u19d6", "\\u1a86", "\\u1a96",
       "\\u1b56", "\\u1bb6", "\\u1c46", "\\u1c56", "\\ua626", "\\ua8d6",
       "\\ua906", "\\ua9d6", "\\ua9f6", "\\uaa56", "\\uabf6", "\\uff16",
       "\\U000104a6", "\\U00010d36", "\\U0001106c", "\\U000110f6",
       "\\U0001113c", "\\U000111d6", "\\U000112f6", "\\U00011456",
       "\\U000114d6", "\\U00011656", "\\U000116c6", "\\U00011736",
       "\\U000118e6", "\\U00011956", "\\U00011c56", "\\U00011d56",
       "\\U00011da6", "\\U00016a66", "\\U00016ac6", "\\U00016b56",
       "\\U0001d7d4", "\\U0001d7de", "\\U0001d7e8", "\\U0001d7f2",
       "\\U0001d7fc", "\\U0001e146", "\\U0001e2f6", "\\U0001e956",
       "\\U0001fbf6"},
      {"7", "\\u0667", "\\u06f7", "\\u07c7", "\\u096d", "\\u09ed", "\\u0a6d",
       "\\u0aed", "\\u0b6d", "\\u0bed", "\\u0c6d", "\\u0ced", "\\u0d6d",
       "\\u0ded", "\\u0e57", "\\u0ed7", "\\u0f27", "\\u1047", "\\u1097",
       "\\u17e7", "\\u1817", "\\u194d", "\\u19d7", "\\u1a87", "\\u1a97",
       "\\u1b57", "\\u1bb7", "\\u1c47", "\\u1c57", "\\ua627", "\\ua8d7",
       "\\ua907", "\\ua9d7", "\\ua9f7", "\\uaa57", "\\uabf7", "\\uff17",
       "\\U000104a7", "\\U00010d37", "\\U0001106d", "\\U000110f7",
       "\\U0001113d", "\\U000111d7", "\\U000112f7", "\\U00011457",
       "\\U000114d7", "\\U00011657", "\\U000116c7", "\\U00011737",
       "\\U000118e7", "\\U00011957", "\\U00011c57", "\\U00011d57",
       "\\U00011da7", "\\U00016a67", "\\U00016ac7", "\\U00016b57",
       "\\U0001d7d5", "\\U0001d7df", "\\U0001d7e9", "\\U0001d7f3",
       "\\U0001d7fd", "\\U0001e147", "\\U0001e2f7", "\\U0001e957",
       "\\U0001fbf7"},
      {"8", "\\u0668", "\\u06f8", "\\u07c8", "\\u096e", "\\u09ee", "\\u0a6e",
       "\\u0aee", "\\u0b6e", "\\u0bee", "\\u0c6e", "\\u0cee", "\\u0d6e",
       "\\u0dee", "\\u0e58", "\\u0ed8", "\\u0f28", "\\u1048", "\\u1098",
       "\\u17e8", "\\u1818", "\\u194e", "\\u19d8", "\\u1a88", "\\u1a98",
       "\\u1b58", "\\u1bb8", "\\u1c48", "\\u1c58", "\\ua628", "\\ua8d8",
       "\\ua908", "\\ua9d8", "\\ua9f8", "\\uaa58", "\\uabf8", "\\uff18",
       "\\U000104a8", "\\U00010d38", "\\U0001106e", "\\U000110f8",
       "\\U0001113e", "\\U000111d8", "\\U000112f8", "\\U00011458",
       "\\U000114d8", "\\U00011658", "\\U000116c8", "\\U00011738",
       "\\U000118e8", "\\U00011958", "\\U00011c58", "\\U00011d58",
       "\\U00011da8", "\\U00016a68", "\\U00016ac8", "\\U00016b58",
       "\\U0001d7d6", "\\U0001d7e0", "\\U0001d7ea", "\\U0001d7f4",
       "\\U0001d7fe", "\\U0001e148", "\\U0001e2f8", "\\U0001e958",
       "\\U0001fbf8"},
      {"9", "\\u0669", "\\u06f9", "\\u07c9", "\\u096f", "\\u09ef", "\\u0a6f",
       "\\u0aef", "\\u0b6f", "\\u0bef", "\\u0c6f", "\\u0cef", "\\u0d6f",
       "\\u0def", "\\u0e59", "\\u0ed9", "\\u0f29", "\\u1049", "\\u1099",
       "\\u17e9", "\\u1819", "\\u194f", "\\u19d9", "\\u1a89", "\\u1a99",
       "\\u1b59", "\\u1bb9", "\\u1c49", "\\u1c59", "\\ua629", "\\ua8d9",
       "\\ua909", "\\ua9d9", "\\ua9f9", "\\uaa59", "\\uabf9", "\\uff19",
       "\\U000104a9", "\\U00010d39", "\\U0001106f", "\\U000110f9",
       "\\U0001113f", "\\U000111d9", "\\U000112f9", "\\U00011459",
       "\\U000114d9", "\\U00011659", "\\U000116c9", "\\U00011739",
       "\\U000118e9", "\\U00011959", "\\U00011c59", "\\U00011d59",
       "\\U00011da9", "\\U00016a69", "\\U00016ac9", "\\U00016b59",
       "\\U0001d7d7", "\\U0001d7e1", "\\U0001d7eb", "\\U0001d7f5",
       "\\U0001d7ff", "\\U0001e149", "\\U0001e2f9", "\\U0001e959",
       "\\U0001fbf9"}>>

AnyDigit == UNION {DecimalDigits[i] : i \in 1..10}

\* the ASCII digit a decimal digit stands for
AsciiDigit(c) == CHOOSE a \in Digit : c \in DecimalDigits[DigitVal[a] + 1]

\* what int() and float() parse: every white space character outside ASCII
\* replaced by a space, every decimal digit by its ASCII digit
ToAscii(s) ==
    [i \in 1..Len(s) |->
        IF s[i] \in Whitespace \ (AsciiSpace \cup Separators) THEN " "
        ELSE IF s[i] \in AnyDigit THEN AsciiDigit(s[i])
        ELSE s[i]]

\* every character of s[i..j] lies in set, and the slice is non-empty
Run(s, i, j, set) == i <= j /\ \A p \in i..j : s[p] \in set

\* the positions at which a pattern ending in $ may end: the end of the
\* string, or just before a final newline
Ends(s) == {Len(s)} \cup (IF Len(s) > 0 /\ s[Len(s)] = "\n" THEN {Len(s) - 1} ELSE {})

----------------------------------------------------------------------------
(* float() and int() *)

RECURSIVE Pow10(_)
Pow10(n) == IF n <= 0 THEN 1 ELSE 10 * Pow10(n - 1)

\* a digit group of a numeric literal: digits, single underscores between them
DigitGroup(q) ==
    /\ Len(q) > 0
    /\ \A i \in 1..Len(q) : q[i] \in Digit \cup {"_"}
    /\ q[1] \in Digit /\ q[Len(q)] \in Digit
    /\ \A i \in 1..(Len(q) - 1) : ~(q[i] = "_" /\ q[i+1] = "_")

RECURSIVE DigitsValue(_)
DigitsValue(q) ==
    IF Len(q) = 0 THEN 0
    ELSE IF q[Len(q)] = "_" THEN DigitsValue(SubSeq(q, 1, Len(q) - 1))
    ELSE 10 * DigitsValue(SubSeq(q, 1, Len(q) - 1)) + DigitVal[q[Len(q)]]

NumDigits(q) == Len(SelectSeq(q, LAMBDA c : c \in Digit))

\* the index of the first character of s that lies in set, Len(s) + 1 if none
FirstIn(s, set) ==
    IF \A i \in 1..Len(s) : s[i] \notin set THEN Len(s) + 1
    ELSE CHOOSE i \in 1..Len(s) : s[i] \in set /\ \A j \in 1..(i-1) : s[j] \notin set

\* the sign a literal starts with, and the literal without it
SignOf(w) == IF Len(w) > 0 /\ w[1] \in {"+", "-"} THEN w[1] ELSE "+"
Unsign(w) == IF Len(w) > 0 /\ w[1] \in {"+", "-"} THEN SubSeq(w, 2, Len(w)) ELSE w

\* an integer literal without its sign
IntDigits(sign, q) ==
    IF DigitGroup(q)
    THEN Return(IF sign = "-" THEN 0 - DigitsValue(q) ELSE DigitsValue(q))
    ELSE Raise("ValueError")

\* an optionally signed integer literal: [+-]digits
IntLiteral(w) == IntDigits(SignOf(w), Unsign(w))

\* int(s) for a str s
ParseInt(s) == IntLiteral(Trimmed(ToAscii(s), AsciiSpace))

\* the number of decimal digits of a natural number
RECURSIVE Magnitude(_)
Magnitude(m) == IF m < 10 THEN 1 ELSE 1 + Magnitude(m \div 10)

\* the first Magnitude(m) digits of the ten-digit number n
FirstDigits(n, m) == n \div Pow10(10 - Magnitude(m))

\* m * 10^x, m > 0, rounds to 0.0: it is at most 2^-1075 = 2.470328229...e-324,
\* half of the smallest double (2470328229 is more than any m of ten digits
\* the model holds)
Underflows(m, x) ==
    \/ Magnitude(m) + x < -323
    \/ /\ Magnitude(m) + x = -323
       /\ Magnitude(m) >= 10 \/ m <= 247032822 \div Pow10(9 - Magnitude(m))

\* m * 10^x, m > 0, rounds to inf: it is at least 2^1024 - 2^970 =
\* 1.797693134862315807...e308
Overflows(m, x) ==
    \/ Magnitude(m) + x > 309
    \/ Magnitude(m) + x = 309 /\ m > FirstDigits(1797693134, m)

\* the double nearest to the decimal m * 10^(-d) scaled by 10^e: 0.0 when it
\* underflows, inf when it overflows.  0.0 and -0.0, which Python holds equal,
\* are both PyFloat(0, 0).
Scaled(m, d, e) ==
    IF m > 0 /\ Underflows(m, e - d) THEN PyFloat(0, 0)
    ELSE IF m > 0 /\ Overflows(m, e - d) THEN Inf
    ELSE IF e >= d THEN PyFloat(IF m = 0 THEN 0 ELSE m * Pow10(e - d), 0)
    ELSE PyFloat(m, d - e)

\* the mantissa digits[.digits] or .digits, given as the text before and
\* after its first "."
MantissaParts(ip, fp) ==
    IF /\ Len(ip) + Len(fp) > 0
       /\ Len(ip) = 0 \/ DigitGroup(ip)
       /\ Len(fp) = 0 \/ DigitGroup(fp)
    THEN Return([m |-> DigitsValue(ip \o fp), d |-> NumDigits(fp)])
    ELSE Raise("ValueError")

Mantissa(mant) ==
    MantissaParts(SubSeq(mant, 1, FirstIn(mant, {"."}) - 1),
                  SubSeq(mant, FirstIn(mant, {"."}) + 1, Len(mant)))

Decimal(mantissa, exponent) ==
    IF mantissa.ok /\ exponent.ok
    THEN Return(Scaled(mantissa.v.m, mantissa.v.d, exponent.v))
    ELSE Raise("ValueError")

\* an unsigned decimal literal: mantissa[e[+-]digits]
ParseDecimal(u) ==
    Decimal(Mantissa(SubSeq(u, 1, FirstIn(u, {"e", "E"}) - 1)),
            IF FirstIn(u, {"e", "E"}) > Len(u) THEN Return(0)
            ELSE IntLiteral(SubSeq(u, FirstIn(u, {"e", "E"}) + 1, Len(u))))

Negate(x) ==
    CASE x.k = "fin" -> PyFloat(0 - x.m, x.d)
      [] x.k = "inf" -> NegInf
      [] x.k = "ninf" -> Inf
      [] x.k = "nan" -> NaN

WithSign(sign, r) == IF r.ok /\ sign = "-" THEN Return(Negate(r.v)) ELSE r

\* an unsigned float literal u, l its lower-case form
UnsignedFloat(u, l) ==
    IF l = <<"n","a","n">> THEN Return(NaN)
    ELSE IF l = <<"i","n","f">> \/ l = <<"i","n","f","i","n","i","t","y">>
         THEN Return(Inf)
    ELSE ParseDecimal(u)

FloatLiteral(w) == WithSign(SignOf(w), UnsignedFloat(Unsign(w), LowerCase(Unsign(w))))

\* float(s) for a str s
ParseFloat(s) == FloatLiteral(Trimmed(ToAscii(s), AsciiSpace))

\* float(x)
ToFloat(x) ==
    CASE x.t = "null" -> Raise("TypeError")
      [] x.t = "bool" -> Return(PyFloat(IF x.b THEN 1 ELSE 0, 0))
      [] x.t = "int" -> Return(PyFloat(x.n, 0))
      [] x.t = "float" -> Return(x)
      [] x.t = "str" -> ParseFloat(x.s)
      [] x.t = "list" -> Raise("TypeError")
      [] x.t = "dict" -> Raise("TypeError")

\* m * 10^(-d) truncated toward zero
Trunc(m, d) ==
    IF d > 9 THEN 0
    ELSE IF m >= 0 THEN m \div Pow10(d) ELSE 0 - ((0 - m) \div Pow10(d))

\* int(x), as a TLA+ integer
ToInt(x) ==
    CASE x.t = "null" -> Raise("TypeError")
      [] x.t = "bool" -> Return(IF x.b THEN 1 ELSE 0)
      [] x.t = "int" -> Return(x.n)
      [] x.t = "float" ->
            (CASE x.k = "fin" -> Return(Trunc(x.m, x.d))
               [] x.k = "nan" -> Raise("ValueError")
               [] x.k \in {"inf", "ninf"} -> Raise("OverflowError"))
      [] x.t = "str" -> ParseInt(x.s)
      [] x.t = "list" -> Raise("TypeError")
      [] x.t = "dict" -> Raise("TypeError")

\* floor(x) of a finite float, and whether x is a whole number
FloorOf(x) ==
    IF x.d > 9 THEN (IF x.m >= 0 THEN 0 ELSE -1) ELSE x.m \div Pow10(x.d)
Whole(x) == IF x.d > 9 THEN x.m = 0 ELSE x.m % Pow10(x.d) = 0

\* comparisons of a float with an integer constant; every comparison with
\* nan is false
FGe(x, n) == x.k = "inf" \/ (x.k = "fin" /\ FloorOf(x) >= n)
FGt(x, n) == x.k = "inf" \/ (x.k = "fin" /\ (FloorOf(x) > n \/ (FloorOf(x) = n /\ ~Whole(x))))
FLt(x, n) == x.k = "ninf" \/ (x.k = "fin" /\ FloorOf(x) < n)
FLe(x, n) == x.k = "ninf" \/ (x.k = "fin" /\ (FloorOf(x) < n \/ (FloorOf(x) = n /\ Whole(x))))

----------------------------------------------------------------------------
(* Sanitizers: utils/security.py sanitize_input, utils/validation.py       *)
(* sanitize_form_data                                                      *)

\* the character class [<>"'] both sanitizers remove
Dangerous == {"<", ">", "\"", "'"}

\* fault injection for C12: the apostrophe is left in place
RemoveAllButApostrophe(s) == SelectSeq(s, LAMBDA c : c \notin {"<", ">", "\""})

RemoveDangerous(s) == SelectSeq(s, LAMBDA c : c \notin Dangerous)

RECURSIVE sanitize_input(_)
sanitize_input(x) ==
    CASE x.t = "dict" -> PyDict([key \in DOMAIN x.kv |-> sanitize_input(x.kv[key])])
      [] x.t = "list" -> PyList([i \in 1..Len(x.xs) |-> sanitize_input(x.xs[i])])
      [] x.t = "str" -> PyStr(Prefix(RemoveDangerous(x.s), 1000))
      [] OTHER -> x

\* the slice length sanitize_form_data applies to the field `key`
FieldLimit(key) ==
    CASE key \in {"first_name", "last_name"} -> 50
      [] key = "email" -> 255
      [] key \in {"company", "website"} -> 200
      [] key = "phone" -> 20
      [] OTHER -> 500

sanitize_form_data(x) ==
    PyDict([key \in DOMAIN x.kv |->
        IF x.kv[key].t = "str"
        THEN PyStr(Prefix(Strip(RemoveDangerous(x.kv[key].s)), FieldLimit(key)))
        ELSE x.kv[key]])

----------------------------------------------------------------------------
(* Regular expressions of utils/validation.py, matched with re.match       *)

EmailLocal == Letter \cup Digit \cup {".", "_", "%", "+", "-"}
HostChars == Letter \cup Digit \cup {".", "-"}
NameChars == Letter \cup Whitespace \cup {"'", "-"}

\* ^[a-zA-Z0-9._%+-]+@[a-zA-Z0-9.-]+\.[a-zA-Z]{2,}$
EmailMatch(s) ==
    \E e \in Ends(s) : \E i \in 2..e : \E j \in (i+2)..(e-2) :
        /\ Run(s, 1, i - 1, EmailLocal)
        /\ s[i] = "@"
        /\ Run(s, i + 1, j - 1, HostChars)
        /\ s[j] = "."
        /\ Run(s, j + 1, e, Letter)

\* ^[a-zA-Z\s'-]+$
NameMatch(s) == Run(s, 1, Len(s), NameChars)

\* ^https?://[a-zA-Z0-9.-]+\.[a-zA-Z]{2,}(/.*)?$
WebsiteMatch(s) ==
    \E h \in {7, 8} :
        /\ Len(s) >= h
        /\ SubSeq(s, 1, h) = (IF h = 7 THEN <<"h","t","t","p",":","/","/">> ELSE <<"h","t","t","p","s",":","/","/">>)
        /\ \E e \in Ends(s) : \E j \in (h+2)..(e-2) : \E k \in (j+2)..e :
              /\ Run(s, h + 1, j - 1, HostChars)
              /\ s[j] = "."
              /\ Run(s, j + 1, k, Letter)
              /\ \/ k = e
                 \/ /\ s[k+1] = "/"
                    /\ \A p \in (k+2)..e : s[p] # "\n"

\* len(re.sub(r'\D', '', s))
DigitCount(s) == Len(SelectSeq(s, LAMBDA c : c \in AnyDigit))

----------------------------------------------------------------------------
(* Validators: utils/validation.py                                         *)
(* Each check of a validator is an operator of the value                   *)
(* x = data.get(field); it returns what the check does to the errors       *)
(* dict, or raises.  An error message is the string the code builds.       *)

\* the check leaves errors alone / sets errors[key] = msg
Nothing == <<>>
Put(key, msg) == [f \in {key} |-> msg]

\* the spelling of a field's key
FieldName ==
    [first_name |-> <<"f","i","r","s","t","_","n","a","m","e">>, last_name |-> <<"l","a","s","t","_","n","a","m","e">>,
     monthly_revenue |-> <<"m","o","n","t","h","l","y","_","r","e","v","e","n","u","e">>,
     average_order_value |-> <<"a","v","e","r","a","g","e","_","o","r","d","e","r","_","v","a","l","u","e">>,
     monthly_orders |-> <<"m","o","n","t","h","l","y","_","o","r","d","e","r","s">>, email |-> <<"e","m","a","i","l">>,
     conversion_rate |-> <<"c","o","n","v","e","r","s","i","o","n","_","r","a","t","e">>,
     cart_abandonment_rate |-> <<"c","a","r","t","_","a","b","a","n","d","o","n","m","e","n","t","_","r","a","t","e">>]

\* c.upper()
ToUpper(c) == IF c \in Lower THEN CHOOSE u \in Upper : ToLower[u] = c ELSE c

\* str(d) for a digit d
DigitChar(d) == CHOOSE c \in Digit : DigitVal[c] = d

\* s.replace("_", " ").title(), s in lower case
TitleCase(s) ==
    [i \in 1..Len(s) |->
        IF s[i] = "_" THEN " "
        ELSE IF i = 1 \/ s[i - 1] = "_" THEN ToUpper(s[i])
        ELSE s[i]]

Title(f) == TitleCase(FieldName[f])

\* the last three digits of n, zero-padded
ThreeDigits(n) ==
    <<DigitChar(((n \div 100) % 10)), DigitChar(((n \div 10) % 10)), DigitChar((n % 10))>>

\* str(n), 0 <= n < 1000
UpTo999(n) ==
    IF n < 10 THEN <<DigitChar(n)>>
    ELSE IF n < 100 THEN <<DigitChar((n \div 10)), DigitChar((n % 10))>>
    ELSE ThreeDigits(n)

\* f"{n:,}", n >= 0
RECURSIVE Thousands(_)
Thousands(n) ==
    IF n < 1000 THEN UpTo999(n)
    ELSE Thousands(n \div 1000) \o <<",">> \o ThreeDigits(n % 1000)

\* len(x)
PyLen(x) ==
    CASE x.t = "str" -> Return(Len(x.s))
      [] x.t = "list" -> Return(Len(x.xs))
      [] x.t = "dict" -> Return(Cardinality(DOMAIN x.kv))
      [] OTHER -> Raise("TypeError")

required_fields == <<"first_name", "last_name", "email", "monthly_revenue",
                     "average_order_value", "monthly_orders">>

RequiredCheck(f, x) ==
    IF ~Truthy(x) THEN Return(Put(f, Title(f) \o <<" ","i","s"," ","r","e","q","u","i","r","e","d">>))
    ELSE IF x.t = "str" /\ Strip(x.s) = <<>> THEN Return(Put(f, Title(f) \o <<" ","c","a","n","n","o","t"," ","b","e"," ","e","m","p","t","y">>))
    ELSE Return(Nothing)

EmailCheck(x) ==
    IF ~Truthy(x) THEN Return(Nothing)
    ELSE IF x.t # "str" THEN Raise("TypeError")
    ELSE IF ~EmailMatch(x.s)
         THEN Return(Put("email", <<"P","l","e","a","s","e"," ","e","n","t","e","r"," ","a"," ","v","a","l","i","d"," ","e","m","a","i","l"," ","a","d","d","r","e","s","s">>))
    ELSE Return(Nothing)

NameLength(f, x, n) ==
    IF ~n.ok THEN n
    ELSE IF n.v < 2 THEN Return(Put(f, Title(f) \o <<" ","m","u","s","t"," ","b","e"," ","a","t"," ","l","e","a","s","t"," ","2"," ","c","h","a","r","a","c","t","e","r","s">>))
    ELSE IF n.v > 50 THEN Return(Put(f, Title(f) \o <<" ","m","u","s","t"," ","b","e"," ","l","e","s","s"," ","t","h","a","n"," ","5","0"," ","c","h","a","r","a","c","t","e","r","s">>))
    ELSE IF x.t # "str" THEN Raise("TypeError")
    ELSE IF ~NameMatch(x.s) THEN Return(Put(f, Title(f) \o <<" ","c","o","n","t","a","i","n","s"," ","i","n","v","a","l","i","d"," ","c","h","a","r","a","c","t","e","r","s">>))
    ELSE Return(Nothing)

NameCheck(f, x) == IF ~Truthy(x) THEN Return(Nothing) ELSE NameLength(f, x, PyLen(x))

financial_fields ==
    <<[field |-> "monthly_revenue", min |-> 1000, max |-> 10000000],
      [field |-> "average_order_value", min |-> 1, max |-> 100000],
      [field |-> "monthly_orders", min |-> 1, max |-> 1000000]>>

FinancialRange(c, value) ==
    IF ~value.ok
    THEN IF value.exc \in {"ValueError", "TypeError"}
         THEN Return(Put(c.field, Title(c.field) \o <<" ","m","u","s","t"," ","b","e"," ","a"," ","v","a","l","i","d"," ","n","u","m","b","e","r">>))
         ELSE value
    ELSE IF FLt(value.v, c.min)
         THEN Return(Put(c.field, Title(c.field) \o <<" ","m","u","s","t"," ","b","e"," ","a","t"," ","l","e","a","s","t"," ","$">>
                                  \o Thousands(c.min)))
    ELSE IF FGt(value.v, c.max)
         THEN Return(Put(c.field, Title(c.field) \o <<" ","c","a","n","n","o","t"," ","e","x","c","e","e","d"," ","$">>
                                  \o Thousands(c.max)))
    ELSE Return(Nothing)

FinancialCheck(c, x) ==
    IF ~Truthy(x) THEN Return(Nothing) ELSE FinancialRange(c, ToFloat(x))

PhoneCheck(x) ==
    IF ~Truthy(x) THEN Return(Nothing)
    ELSE IF x.t # "str" THEN Raise("TypeError")
    ELSE IF DigitCount(x.s) < 10 \/ DigitCount(x.s) > 15
         THEN Return(Put("phone", <<"P","l","e","a","s","e"," ","e","n","t","e","r"," ","a"," ","v","a","l","i","d"," ","p","h","o","n","e"," ","n","u","m","b","e","r">>))
    ELSE Return(Nothing)

WebsiteCheck(x) ==
    IF ~Truthy(x) THEN Return(Nothing)
    ELSE IF x.t # "str" THEN Raise("TypeError")
    ELSE IF ~WebsiteMatch(x.s)
         THEN Return(Put("website", <<"P","l","e","a","s","e"," ","e","n","t","e","r"," ","a"," ","v","a","l","i","d"," ","w","e","b","s","i","t","e"," ","U","R","L"," ","(","i","n","c","l","u","d","e"," ","h","t","t","p",":","/","/"," ","o","r"," ","h","t","t","p","s",":","/","/",")">>))
    ELSE Return(Nothing)

CompanyLength(n) ==
    IF ~n.ok THEN n
    ELSE IF n.v > 100
         THEN Return(Put("company", <<"C","o","m","p","a","n","y"," ","n","a","m","e"," ","m","u","s","t"," ","b","e"," ","l","e","s","s"," ","t","h","a","n"," ","1","0","0"," ","c","h","a","r","a","c","t","e","r","s">>))
    ELSE Return(Nothing)

CompanyCheck(x) == IF ~Truthy(x) THEN Return(Nothing) ELSE CompanyLength(PyLen(x))

valid_industries ==
    {<<"E","-","c","o","m","m","e","r","c","e">>, <<"S","a","a","S">>, <<"H","e","a","l","t","h","c","a","r","e">>, <<"F","i","n","a","n","c","e">>, <<"E","d","u","c","a","t","i","o","n">>,
     <<"R","e","a","l"," ","E","s","t","a","t","e">>, <<"M","a","n","u","f","a","c","t","u","r","i","n","g">>, <<"R","e","t","a","i","l">>, <<"T","e","c","h","n","o","l","o","g","y">>,
     <<"C","o","n","s","u","l","t","i","n","g">>, <<"M","a","r","k","e","t","i","n","g">>, <<"O","t","h","e","r">>}

\* an enumeration with a stage the scoring table does not know
valid_stages_with_scale_up ==
    {<<"S","t","a","r","t","u","p">>, <<"G","r","o","w","t","h">>, <<"S","c","a","l","e","-","u","p">>, <<"E","s","t","a","b","l","i","s","h","e","d">>, <<"E","n","t","e","r","p","r","i","s","e">>}

valid_stages == {<<"S","t","a","r","t","u","p">>, <<"G","r","o","w","t","h">>, <<"E","s","t","a","b","l","i","s","h","e","d">>, <<"E","n","t","e","r","p","r","i","s","e">>}

valid_sizes == {<<"1","-","1","0">>, <<"1","1","-","5","0">>, <<"5","1","-","2","0","0">>, <<"2","0","1","-","1","0","0","0">>, <<"1","0","0","0","+">>}

\* x not in a list of str
NotIn(x, strings) == ~(x.t = "str" /\ x.s \in strings)

EnumCheck(f, strings, msg, x) ==
    IF Truthy(x) /\ NotIn(x, strings) THEN Return(Put(f, msg)) ELSE Return(Nothing)

percentage_fields == <<"conversion_rate", "cart_abandonment_rate">>

PercentageRange(f, value) ==
    IF ~value.ok
    THEN IF value.exc \in {"ValueError", "TypeError"}
         THEN Return(Put(f, Title(f) \o <<" ","m","u","s","t"," ","b","e"," ","a"," ","v","a","l","i","d"," ","p","e","r","c","e","n","t","a","g","e">>))
         ELSE value
    ELSE IF FLt(value.v, 0) \/ FGt(value.v, 100)
         THEN Return(Put(f, Title(f) \o <<" ","m","u","s","t"," ","b","e"," ","b","e","t","w","e","e","n"," ","0"," ","a","n","d"," ","1","0","0">>))
    ELSE Return(Nothing)

PercentageCheck(f, x) ==
    IF ~Truthy(x) THEN Return(Nothing) ELSE PercentageRange(f, ToFloat(x))

\* the field the i-th check of validate_roi_submission reads, in the order
\* of its body
StepField ==
    <<"first_name", "last_name", "email", "monthly_revenue", "average_order_value",
      "monthly_orders", "email", "first_name", "last_name", "monthly_revenue",
      "average_order_value", "monthly_orders", "phone", "website", "company",
      "industry", "business_stage", "company_size", "conversion_rate",
      "cart_abandonment_rate">>

Steps == 1..20

\* the i-th check of validate_roi_submission on x = data.get(StepField[i])
Step(i, x) ==
    CASE i \in 1..6 -> RequiredCheck(required_fields[i], x)
      [] i = 7 -> EmailCheck(x)
      [] i \in 8..9 -> NameCheck(StepField[i], x)
      [] i \in 10..12 -> FinancialCheck(financial_fields[i - 9], x)
      [] i = 13 -> PhoneCheck(x)
      [] i = 14 -> WebsiteCheck(x)
      [] i = 15 -> CompanyCheck(x)
      [] i = 16 -> EnumCheck("industry", valid_industries,
                             <<"P","l","e","a","s","e"," ","s","e","l","e","c","t"," ","a"," ","v","a","l","i","d"," ","i","n","d","u","s","t","r","y">>, x)
      [] i = 17 -> EnumCheck("business_stage", valid_stages,
                             <<"P","l","e","a","s","e"," ","s","e","l","e","c","t"," ","a"," ","v","a","l","i","d"," ","b","u","s","i","n","e","s","s"," ","s","t","a","g","e">>, x)
      [] i = 18 -> EnumCheck("company_size", valid_sizes,
                             <<"P","l","e","a","s","e"," ","s","e","l","e","c","t"," ","a"," ","v","a","l","i","d"," ","c","o","m","p","a","n","y"," ","s","i","z","e">>, x)
      [] i \in 19..20 -> PercentageCheck(percentage_fields[i - 18], x)

\* the last of the checks in `among` that assigns errors[f]
LastWriter(outcome, among, f) ==
    CHOOSE i \in among : /\ f \in DOMAIN outcome[i].v
                         /\ \A j \in among : f \in DOMAIN outcome[j].v => j <= i

\* fault injection for C10: the checks stop at the first one that sets an error
CollectFirstError(outcome) ==
    IF \E i \in DOMAIN outcome : ~outcome[i].ok
    THEN outcome[CHOOSE i \in DOMAIN outcome :
                    ~outcome[i].ok /\ \A j \in 1..(i-1) : outcome[j].ok]
    ELSE IF \A i \in DOMAIN outcome : DOMAIN outcome[i].v = {}
    THEN Return(Nothing)
    ELSE Return(outcome[CHOOSE i \in DOMAIN outcome :
                           /\ DOMAIN outcome[i].v # {}
                           /\ \A j \in 1..(i-1) : DOMAIN outcome[j].v = {}].v)

\* the errors dict after the checks whose outcomes are outcome[1..n], run in
\* order: the first check that raises ends the function, and a later
\* assignment to errors[key] replaces an earlier one
Collect(outcome) ==
    IF \E i \in DOMAIN outcome : ~outcome[i].ok
    THEN outcome[CHOOSE i \in DOMAIN outcome :
                    ~outcome[i].ok /\ \A j \in 1..(i-1) : outcome[j].ok]
    ELSE Return([f \in UNION {DOMAIN outcome[i].v : i \in DOMAIN outcome} |->
                    outcome[LastWriter(outcome, DOMAIN outcome, f)].v[f]])

\* fault injection for C8: valid is computed from the required fields only
ValidationResultRequiredOnly(errors) ==
    IF errors.ok
    THEN Return([valid |-> (DOMAIN errors.v \cap {"first_name", "last_name", "email"} = {}),
                 errors |-> errors.v])
    ELSE errors

\* the returned {'valid': len(errors) == 0, 'errors': errors}
ValidationResult(errors) ==
    IF errors.ok THEN Return([valid |-> (DOMAIN errors.v = {}), errors |-> errors.v])
    ELSE errors

validate_roi_submission(d) ==
    IF d.t # "dict" THEN Raise("AttributeError")
    ELSE ValidationResult(Collect([i \in Steps |-> Step(i, Get(d, StepField[i], None))]))

CalculationRange(value) ==
    IF ~value.ok
    THEN IF value.exc \in {"ValueError", "TypeError"}
         THEN Return(Put("monthly_revenue", <<"M","o","n","t","h","l","y"," ","r","e","v","e","n","u","e"," ","m","u","s","t"," ","b","e"," ","a"," ","v","a","l","i","d"," ","n","u","m","b","e","r">>))
         ELSE value
    ELSE IF FLe(value.v, 0)
         THEN Return(Put("monthly_revenue", <<"M","o","n","t","h","l","y"," ","r","e","v","e","n","u","e"," ","m","u","s","t"," ","b","e"," ","g","r","e","a","t","e","r"," ","t","h","a","n"," ","0">>))
    ELSE IF FGt(value.v, 10000000)
         THEN Return(Put("monthly_revenue", <<"M","o","n","t","h","l","y"," ","r","e","v","e","n","u","e"," ","s","e","e","m","s"," ","u","n","u","s","u","a","l","l","y"," ","h","i","g","h">>))
    ELSE Return(Nothing)

CalculationCheck(x) ==
    IF ~Truthy(x)
    THEN Return(Put("monthly_revenue", <<"M","o","n","t","h","l","y"," ","r","e","v","e","n","u","e"," ","i","s"," ","r","e","q","u","i","r","e","d"," ","f","o","r"," ","c","a","l","c","u","l","a","t","i","o","n","s">>))
    ELSE CalculationRange(ToFloat(x))

validate_calculation_data(d) ==
    IF d.t # "dict" THEN Raise("AttributeError")
    ELSE ValidationResult(CalculationCheck(Get(d, "monthly_revenue", None)))

----------------------------------------------------------------------------
(* Lead scoring: utils/lead_scoring.py                                     *)

size_scores ==
    (<<"1","-","1","0">> :> 5) @@ (<<"1","1","-","5","0">> :> 10) @@ (<<"5","1","-","2","0","0">> :> 15)
    @@ (<<"2","0","1","-","1","0","0","0">> :> 12) @@ (<<"1","0","0","0","+">> :> 8)

industry_scores ==
    (<<"E","-","c","o","m","m","e","r","c","e">> :> 15) @@ (<<"S","a","a","S">> :> 12) @@ (<<"R","e","t","a","i","l">> :> 12)
    @@ (<<"T","e","c","h","n","o","l","o","g","y">> :> 10) @@ (<<"M","a","r","k","e","t","i","n","g">> :> 10) @@ (<<"H","e","a","l","t","h","c","a","r","e">> :> 8)
    @@ (<<"F","i","n","a","n","c","e">> :> 8) @@ (<<"E","d","u","c","a","t","i","o","n">> :> 6) @@ (<<"R","e","a","l"," ","E","s","t","a","t","e">> :> 6)
    @@ (<<"M","a","n","u","f","a","c","t","u","r","i","n","g">> :> 4) @@ (<<"C","o","n","s","u","l","t","i","n","g">> :> 4) @@ (<<"O","t","h","e","r">> :> 2)

stage_scores ==
    (<<"G","r","o","w","t","h">> :> 10) @@ (<<"E","s","t","a","b","l","i","s","h","e","d">> :> 8) @@ (<<"S","t","a","r","t","u","p">> :> 6)
    @@ (<<"E","n","t","e","r","p","r","i","s","e">> :> 4)

\* table.get(x, 0) for a table keyed by str; an unhashable key raises
Lookup(table, x) ==
    IF x.t \in {"list", "dict"} THEN Raise("TypeError")
    ELSE IF x.t = "str" /\ x.s \in DOMAIN table THEN Return(table[x.s])
    ELSE Return(0)

WebsiteBonus(website) == IF Truthy(website) THEN 10 ELSE 0

DemographicSum(size, industry, stage, website) ==
    IF ~size.ok THEN size
    ELSE IF ~industry.ok THEN industry
    ELSE IF ~stage.ok THEN stage
    ELSE Return(size.v + industry.v + stage.v + website)

calculate_demographic_score(d) ==
    DemographicSum(Lookup(size_scores, Get(d, "company_size", PyStr(<<>>))),
                   Lookup(industry_scores, Get(d, "industry", PyStr(<<>>))),
                   Lookup(stage_scores, Get(d, "business_stage", PyStr(<<>>))),
                   WebsiteBonus(Get(d, "website", None)))

\* fault injection for C14: every revenue band that is reached is added
RevenueBandSummed(monthly_revenue) ==
    (IF FGe(monthly_revenue, 100000) THEN 25 ELSE 0)
    + (IF FGe(monthly_revenue, 50000) THEN 20 ELSE 0)
    + (IF FGe(monthly_revenue, 25000) THEN 15 ELSE 0)
    + (IF FGe(monthly_revenue, 10000) THEN 10 ELSE 0)
    + (IF FGe(monthly_revenue, 5000) THEN 5 ELSE 0)

RevenueBand(monthly_revenue) ==
    IF FGe(monthly_revenue, 100000) THEN 25
    ELSE IF FGe(monthly_revenue, 50000) THEN 20
    ELSE IF FGe(monthly_revenue, 25000) THEN 15
    ELSE IF FGe(monthly_revenue, 10000) THEN 10
    ELSE IF FGe(monthly_revenue, 5000) THEN 5
    ELSE 0

OrdersBand(monthly_orders) ==
    IF monthly_orders >= 1000 THEN 15
    ELSE IF monthly_orders >= 500 THEN 12
    ELSE IF monthly_orders >= 200 THEN 8
    ELSE IF monthly_orders >= 50 THEN 4
    ELSE 0

AovBand(aov) ==
    IF FGe(aov, 200) THEN 10
    ELSE IF FGe(aov, 100) THEN 8
    ELSE IF FGe(aov, 50) THEN 5
    ELSE IF FGe(aov, 25) THEN 2
    ELSE 0

BehavioralSum(monthly_revenue, monthly_orders, aov) ==
    IF ~monthly_revenue.ok THEN monthly_revenue
    ELSE IF ~monthly_orders.ok THEN monthly_orders
    ELSE IF ~aov.ok THEN aov
    ELSE Return(RevenueBand(monthly_revenue.v) + OrdersBand(monthly_orders.v)
                + AovBand(aov.v))

calculate_behavioral_score(d) ==
    BehavioralSum(ToFloat(Get(d, "monthly_revenue", PyInt(0))),
                  ToInt(Get(d, "monthly_orders", PyInt(0))),
                  ToFloat(Get(d, "average_order_value", PyInt(0))))

ConversionBand(conversion_rate) ==
    IF FGt(conversion_rate, 0)
    THEN IF FLt(conversion_rate, 2) THEN 15
         ELSE IF FLt(conversion_rate, 3) THEN 12
         ELSE IF FLt(conversion_rate, 5) THEN 8
         ELSE IF FLt(conversion_rate, 8) THEN 4
         ELSE 0
    ELSE 0

\* fault injection for C15: the abandonment bounds are inclusive
AbandonmentBandInclusive(abandonment_rate) ==
    IF FGt(abandonment_rate, 0)
    THEN IF FGe(abandonment_rate, 70) THEN 15
         ELSE IF FGe(abandonment_rate, 60) THEN 12
         ELSE IF FGe(abandonment_rate, 50) THEN 8
         ELSE IF FGe(abandonment_rate, 40) THEN 4
         ELSE 0
    ELSE 0

AbandonmentBand(abandonment_rate) ==
    IF FGt(abandonment_rate, 0)
    THEN IF FGt(abandonment_rate, 70) THEN 15
         ELSE IF FGt(abandonment_rate, 60) THEN 12
         ELSE IF FGt(abandonment_rate, 50) THEN 8
         ELSE IF FGt(abandonment_rate, 40) THEN 4
         ELSE 0
    ELSE 0

\* fault injection for C17: zero manual hours earn the lowest band
ManualHoursBandFromZero(manual_hours) ==
    IF manual_hours >= 20 THEN 10
    ELSE IF manual_hours >= 10 THEN 7
    ELSE IF manual_hours >= 5 THEN 4
    ELSE IF manual_hours >= 0 THEN 1
    ELSE 0

ManualHoursBand(manual_hours) ==
    IF manual_hours >= 20 THEN 10
    ELSE IF manual_hours >= 10 THEN 7
    ELSE IF manual_hours >= 5 THEN 4
    ELSE IF manual_hours >= 1 THEN 1
    ELSE 0

AdSpendBand(ad_spend) ==
    IF FGe(ad_spend, 10000) THEN 10
    ELSE IF FGe(ad_spend, 5000) THEN 8
    ELSE IF FGe(ad_spend, 2000) THEN 5
    ELSE IF FGe(ad_spend, 500) THEN 2
    ELSE 0

FitSum(conversion_rate, abandonment_rate, manual_hours, ad_spend) ==
    IF ~conversion_rate.ok THEN conversion_rate
    ELSE IF ~abandonment_rate.ok THEN abandonment_rate
    ELSE IF ~manual_hours.ok THEN manual_hours
    ELSE IF ~ad_spend.ok THEN ad_spend
    ELSE Return(ConversionBand(conversion_rate.v) + AbandonmentBand(abandonment_rate.v)
                + ManualHoursBand(manual_hours.v) + AdSpendBand(ad_spend.v))

calculate_fit_score(d) ==
    FitSum(ToFloat(Get(d, "conversion_rate", PyInt(0))),
           ToFloat(Get(d, "cart_abandonment_rate", PyInt(0))),
           ToInt(Get(d, "manual_hours_per_week", PyInt(0))),
           ToFloat(Get(d, "monthly_ad_spend", PyInt(0))))

\* max(0, min(150, score))
\* fault injection for C18: the upper clamp is one too low
ClampBelowMax(score) == IF score > 149 THEN 149 ELSE IF score < 0 THEN 0 ELSE score

Clamp(score) == IF score > 150 THEN 150 ELSE IF score < 0 THEN 0 ELSE score

\* fault injection for C3: the fit score is left out of the sum
LeadScoreWithoutFit(demographic, behavioral, fit) ==
    IF ~demographic.ok THEN demographic
    ELSE IF ~behavioral.ok THEN behavioral
    ELSE IF ~fit.ok THEN fit
    ELSE Return(demographic.v + behavioral.v)

\* score = 0; score += demographic; score += behavioral; score += fit; clamp
LeadScore(demographic, behavioral, fit) ==
    IF ~demographic.ok THEN demographic
    ELSE IF ~behavioral.ok THEN behavioral
    ELSE IF ~fit.ok THEN fit
    ELSE Return(Clamp(demographic.v + behavioral.v + fit.v))

calculate_lead_score(d) ==
    IF d.t # "dict" THEN Raise("AttributeError")
    ELSE LeadScore(calculate_demographic_score(d), calculate_behavioral_score(d),
                   calculate_fit_score(d))

\* fault injection for C4: the Warm band starts above 60 instead of at 60
assign_tier_above_60(score) ==
    IF score >= 100 THEN "Hot"
    ELSE IF score > 60 THEN "Warm"
    ELSE "Cold"

assign_tier(score) ==
    IF score >= 100 THEN "Hot"
    ELSE IF score >= 60 THEN "Warm"
    ELSE "Cold"

----------------------------------------------------------------------------
(* Request bodies the model draws from: a base form with at most           *)
(* MaxOverrides of its fields replaced (or removed) by a candidate value.  *)

MaxOverrides == 2

\* marks a key left out of the body; never a value of the body itself
Absent == [t |-> "absent"]

MinimalForm ==
    [first_name |-> PyStr(<<"A","l">>), last_name |-> PyStr(<<"B","o">>),
     email |-> PyStr(<<"a","@","b",".","c","o">>), monthly_revenue |-> PyInt(3000),
     average_order_value |-> PyInt(10), monthly_orders |-> PyInt(10)]

FullForm ==
    [first_name |-> PyStr(<<"A","l">>), last_name |-> PyStr(<<"B","o">>),
     email |-> PyStr(<<"a","@","b",".","c","o">>), monthly_revenue |-> PyInt(150000),
     average_order_value |-> PyInt(250), monthly_orders |-> PyInt(1200),
     company_size |-> PyStr(<<"5","1","-","2","0","0">>), industry |-> PyStr(<<"E","-","c","o","m","m","e","r","c","e">>),
     business_stage |-> PyStr(<<"G","r","o","w","t","h">>), website |-> PyStr(<<"h","t","t","p",":","/","/","x",".","c","o","m">>),
     conversion_rate |-> PyFloat(15, 1), cart_abandonment_rate |-> PyInt(75),
     manual_hours_per_week |-> PyInt(25), monthly_ad_spend |-> PyInt(12000)]

BaseForms == {MinimalForm, FullForm}

Candidates ==
    [first_name |-> {Absent, None, PyStr(<<>>), PyStr(<<" ","\f">>), PyStr(<<"A">>),
                     PyStr(<<"A","\f","l">>),
                     PyStr(<<"O","'","N","e","i","l">>), PyStr(<<"J","0">>), PyStr(Rep("a", 51)), PyInt(12)},
     last_name |-> {Absent, PyStr(<<" ">>), PyStr(<<"<","b",">">>)},
     email |-> {Absent, None, PyStr(<<"n","o","p","e">>), PyInt(5)},
     monthly_revenue |-> {Absent, PyInt(0), PyInt(999), PyInt(1000), PyStr(<<"5","0","0","0">>),
                          PyStr(<<"a","b","c">>), PyInt(10000001), PyStr(<<"n","a","n">>),
                          PyList(<<PyInt(1)>>)},
     average_order_value |-> {Absent, PyStr(<<"x">>), PyFloat(5, 1), PyInt(100),
                              PyStr(<<"\\u0665", "\\u0660">>)},
     monthly_orders |-> {Absent, PyInt(0), PyStr(<<"1","0",".","5">>), PyFloat(105, 1),
                         PyStr(<<"\f","1","2"," ">>), PyStr(<<"a","b","c">>), NaN, PyInt(500)},
     phone |-> {Absent, PyStr(<<"5","5","5">>), PyStr(<<"5","5","5","-","1","2","3","-","4","5","6","7">>), PyInt(12345),
                PyStr(<<"1","2","3","4","5">> \o <<"\\u0666", "\\u0667", "\\u0668", "\\u0669", "\\u0660">>)},
     website |-> {Absent, PyStr(<<"h","t","t","p",":","/","/","x",".","c","o","m">>), PyStr(<<"x",".","c","o","m">>), PyStr(<<>>)},
     company |-> {Absent, PyStr(<<"A","c","m","e">>), PyStr(Rep("c", 101))},
     industry |-> {Absent, None, PyStr(<<"O","t","h","e","r">>), PyStr(<<"G","a","m","i","n","g">>),
                   PyStr(<<"<","S","a","a","S",">">>), PyList(<<PyStr(<<"S","a","a","S">>)>>),
                   PyStr(<<"E","-","c","o","m","m","e","r","c","e">> \o Rep(" ", 490) \o <<"x">>)},
     business_stage |-> {Absent, PyStr(<<"S","t","a","r","t","u","p">>), PyStr(<<"S","e","e","d">>),
                         PyStr(<<"G","r","o","w","t","h">> \o Rep(" ", 1000))},
     company_size |-> {Absent, PyStr(<<"1","-","1","0">>), PyStr(<<"5">>)},
     conversion_rate |-> {Absent, None, PyInt(0), PyInt(101), PyStr(<<"a","b","c">>),
                          PyStr(<<"\f","2">>), PyStr(<<"1","e","-","4","0","0">>), PyInt(8)},
     cart_abandonment_rate |-> {Absent, None, PyInt(40), PyStr(<<"x">>),
                                PyStr(<<"-","1","e","-","4","0","0">>)},
     manual_hours_per_week |-> {Absent, None, PyStr(<<"a","b","c">>), PyStr(<<"2",".","5">>), PyInt(5)},
     monthly_ad_spend |-> {Absent, None, PyStr(<<"a","b","c">>), PyInt(500),
                           PyStr(<<"\\x1c">> \o <<"5","0","0">>)},
     customer_acquisition_cost |-> {Absent, None, PyStr(<<"a","b","c">>), PyInt(50)}]

Fields == DOMAIN Candidates

\* the form with field f set to v, or removed when v is Absent
Patch(form, f, v) ==
    IF v = Absent THEN [g \in DOMAIN form \ {f} |-> form[g]]
    ELSE [g \in DOMAIN form \cup {f} |-> IF g = f THEN v ELSE form[g]]

RECURSIVE Overridden(_, _)
Overridden(forms, n) ==
    IF n = 0 THEN forms
    ELSE Overridden(forms \cup {Patch(form, f, v) :
                                  form \in forms, <<f, v>> \in
                                      UNION {{<<g, w>> : w \in Candidates[g]} : g \in Fields}},
                    n - 1)

Forms == Overridden(BaseForms, MaxOverrides)

\* bodies get_json() may return: a form, or JSON that is no non-empty object
Requests == {PyDict(form) : form \in Forms}
            \cup {None, EmptyDict, PyList(<<PyInt(1)>>)}

----------------------------------------------------------------------------
(* The /submit handler: routes/roi_calculator_secure.py submit_roi_form    *)
(* One request is followed from get_json() to the response; an unbound     *)
(* local is None.                                                          *)

NewTracker == [submissions |-> <<>>, success_count |-> 0, error_count |-> 0]

\* self.submissions[submission_id][key] = value for every key of `items`, the
\* entry created empty by the defaultdict if it is missing
Tracked(submissions, submission_id, items) ==
    [i \in DOMAIN submissions \cup {submission_id} |->
        IF i # submission_id THEN submissions[i]
        ELSE [k \in (IF i \in DOMAIN submissions THEN DOMAIN submissions[i] ELSE {})
                     \cup DOMAIN items |->
                 IF k \in DOMAIN items THEN items[k] ELSE submissions[i][k]]]

\* SubmissionTracker.record_success (processing_time is wall-clock time, kept
\* as the word "elapsed")
record_success(tracker, submission_id) ==
    [tracker EXCEPT
        !.submissions = Tracked(tracker.submissions, submission_id,
                                [status |-> "success", processing_time |-> "elapsed"]),
        !.success_count = tracker.success_count + 1]

\* SubmissionTracker.record_error
record_error(tracker, submission_id, error_type, error_message) ==
    [tracker EXCEPT
        !.submissions = Tracked(tracker.submissions, submission_id,
                                [status |-> "error", error_type |-> error_type,
                                 error_message |-> error_message]),
        !.error_count = tracker.error_count + 1]

\* a / b * factor in floating point, kept as its operands
Quotient(a, b, factor) == [num |-> a, den |-> b, factor |-> factor]

\* max(len(self.submissions), 1)
AtLeastOne(n) == IF n > 1 THEN n ELSE 1

\* SubmissionTracker.get_stats
get_stats(tracker) ==
    [total_submissions |-> Cardinality(DOMAIN tracker.submissions),
     success_count |-> tracker.success_count,
     error_count |-> tracker.error_count,
     success_rate |-> Quotient(tracker.success_count,
                               AtLeastOne(Cardinality(DOMAIN tracker.submissions)),
                               100)]

\* the `except Exception` branch of submit_roi_form
SubmissionFailed == [status |-> 500, error |-> "Submission failed"]

\* ROISubmission(...): c holds the conversions of its keyword arguments, which
\* are evaluated in order
Row(email, c, score, lead_tier) ==
    IF ~c.monthly_revenue.ok THEN c.monthly_revenue
    ELSE IF ~c.average_order_value.ok THEN c.average_order_value
    ELSE IF ~c.monthly_orders.ok THEN c.monthly_orders
    ELSE IF ~c.conversion_rate.ok THEN c.conversion_rate
    ELSE IF ~c.customer_acquisition_cost.ok THEN c.customer_acquisition_cost
    ELSE IF ~c.customer_lifetime_value.ok THEN c.customer_lifetime_value
    ELSE Return([id |-> None,
                 email |-> email,
                 monthly_revenue |-> c.monthly_revenue.v,
                 average_order_value |-> c.average_order_value.v,
                 monthly_orders |-> c.monthly_orders.v,
                 conversion_rate |-> c.conversion_rate.v,
                 lead_score |-> score,
                 lead_tier |-> lead_tier])

NewSubmission(d, score, lead_tier) ==
    Row(d.kv["email"],
        [monthly_revenue |-> ToFloat(d.kv["monthly_revenue"]),
         average_order_value |-> ToFloat(d.kv["average_order_value"]),
         monthly_orders |-> ToInt(d.kv["monthly_orders"]),
         conversion_rate |-> ToFloat(Get(d, "conversion_rate", PyInt(0))),
         customer_acquisition_cost |-> ToFloat(Get(d, "customer_acquisition_cost", PyInt(0))),
         customer_lifetime_value |-> ToFloat(Get(d, "customer_lifetime_value", PyInt(0)))],
        score, lead_tier)

HandlerInit ==
    /\ pc = "get_json"
    /\ data = None
    /\ validation_result = None
    /\ lead_score = None
    /\ tier = None
    /\ submission = None
    /\ db = <<>>
    /\ submission_tracker = NewTracker
    /\ response = None
    /\ calls = <<>>

\* EmailMonitor() and HubSpotMonitor(): defaultdict(int) counters
NewMonitors == [email_stats |-> <<>>, hubspot_stats |-> <<>>]

\* no request has reached a rate_limit wrapper, nothing has been monitored
SharedIdle ==
    /\ rate_limit_storage = <<>>
    /\ clock = 0
    /\ limit = None
    /\ threads = <<>>
    /\ log = <<>>
    /\ monitors = NewMonitors

\* no library function has been called directly
DirectIdle == arg = None /\ ret = None /\ called = "none"

Init ==
    /\ req \in Requests
    /\ HandlerInit
    /\ DirectIdle
    /\ SharedIdle

\* data = request.get_json(); if not data: return 400
GetJson ==
    /\ pc = "get_json"
    /\ data' = req
    /\ IF Truthy(req)
       THEN /\ pc' = "sanitize"
            /\ UNCHANGED response
       ELSE /\ response' = [status |-> 400, error |-> "No data provided"]
            /\ pc' = "done"
    /\ UNCHANGED <<req, validation_result, lead_score, tier, submission, db,
                   submission_tracker, calls>>
    /\ UNCHANGED direct_vars
    /\ UNCHANGED shared_vars

\* data = sanitize_input(data)
\* fault injection for C7: the handler validates and scores the raw request
SanitizeSkipped ==
    /\ pc = "sanitize"
    /\ data' = data
    /\ calls' = Append(calls, "sanitize_input")
    /\ pc' = "validate"
    /\ UNCHANGED <<req, validation_result, lead_score, tier, submission, db,
                   submission_tracker, response>>
    /\ UNCHANGED direct_vars
    /\ UNCHANGED shared_vars

Sanitize ==
    /\ pc = "sanitize"
    /\ data' = sanitize_input(data)
    /\ calls' = Append(calls, "sanitize_input")
    /\ pc' = "validate"
    /\ UNCHANGED <<req, validation_result, lead_score, tier, submission, db,
                   submission_tracker, response>>
    /\ UNCHANGED direct_vars
    /\ UNCHANGED shared_vars

\* fault injection for C6: the handler goes on to scoring whatever the result
ValidatedUngated(r) ==
    IF ~r.ok
    THEN /\ response' = SubmissionFailed
         /\ pc' = "done"
         /\ UNCHANGED validation_result
    ELSE /\ validation_result' = r.v
         /\ pc' = "score"
         /\ UNCHANGED response

\* what the handler does with r, the outcome of validate_roi_submission(data)
Validated(r) ==
    IF ~r.ok
    THEN /\ response' = SubmissionFailed
         /\ pc' = "done"
         /\ UNCHANGED validation_result
    ELSE /\ validation_result' = r.v
         /\ IF r.v.valid
            THEN pc' = "score" /\ UNCHANGED response
            ELSE /\ response' = [status |-> 400, error |-> "Validation failed",
                                 field_errors |-> r.v.errors]
                 /\ pc' = "done"

\* validation_result = validate_roi_submission(data); if not valid: return 400
Validate ==
    /\ pc = "validate"
    /\ calls' = Append(calls, "validate_roi_submission")
    /\ Validated(validate_roi_submission(data))
    /\ UNCHANGED <<req, data, lead_score, tier, submission, db, submission_tracker>>
    /\ UNCHANGED direct_vars
    /\ UNCHANGED shared_vars

\* what the handler does with r, the outcome of calculate_lead_score(data)
Scored(r) ==
    IF r.ok
    THEN lead_score' = r.v /\ pc' = "tier" /\ UNCHANGED response
    ELSE response' = SubmissionFailed /\ pc' = "done" /\ UNCHANGED lead_score

\* lead_score = calculate_lead_score(data)
Score ==
    /\ pc = "score"
    /\ calls' = Append(calls, "calculate_lead_score")
    /\ Scored(calculate_lead_score(data))
    /\ UNCHANGED <<req, data, validation_result, tier, submission, db,
                   submission_tracker>>
    /\ UNCHANGED direct_vars
    /\ UNCHANGED shared_vars

\* tier = assign_tier(lead_score)
AssignTier ==
    /\ pc = "tier"
    /\ calls' = Append(calls, "assign_tier")
    /\ tier' = assign_tier(lead_score)
    /\ pc' = "create"
    /\ UNCHANGED <<req, data, validation_result, lead_score, submission, db,
                   submission_tracker, response>>
    /\ UNCHANGED direct_vars
    /\ UNCHANGED shared_vars

\* what the handler does with r, the outcome of ROISubmission(...)
Created(r) ==
    IF r.ok
    THEN submission' = r.v /\ pc' = "commit" /\ UNCHANGED response
    ELSE response' = SubmissionFailed /\ pc' = "done" /\ UNCHANGED submission

\* submission = ROISubmission(...): the constructor is called once every
\* keyword argument has been evaluated
Create ==
    /\ pc = "create"
    /\ calls' = IF NewSubmission(data, lead_score, tier).ok
                THEN Append(calls, "ROISubmission")
                ELSE calls
    /\ Created(NewSubmission(data, lead_score, tier))
    /\ UNCHANGED <<req, data, validation_result, lead_score, tier, db,
                   submission_tracker>>
    /\ UNCHANGED direct_vars
    /\ UNCHANGED shared_vars

\* db.session.add(submission); db.session.commit()
Commit ==
    /\ pc = "commit"
    /\ calls' = Append(calls, "commit")
    /\ db' = Append(db, [submission EXCEPT !.id = Len(db) + 1])
    /\ submission' = [submission EXCEPT !.id = Len(db) + 1]
    /\ pc' = "record"
    /\ UNCHANGED <<req, data, validation_result, lead_score, tier,
                   submission_tracker, response>>
    /\ UNCHANGED direct_vars
    /\ UNCHANGED shared_vars

\* db.session.commit() raises (the database refuses the row or is down)
CommitFails ==
    /\ pc = "commit"
    /\ calls' = Append(calls, "commit")
    /\ response' = SubmissionFailed
    /\ pc' = "done"
    /\ UNCHANGED <<req, data, validation_result, lead_score, tier, submission, db,
                   submission_tracker>>
    /\ UNCHANGED direct_vars
    /\ UNCHANGED shared_vars

\* a handler that records the submission a second time
RecordTwice ==
    /\ pc = "record"
    /\ calls' = Append(calls, "record_success")
    /\ submission_tracker' = record_success(record_success(submission_tracker,
                                                           submission.id),
                                            submission.id)
    /\ pc' = "respond"
    /\ UNCHANGED <<req, data, validation_result, lead_score, tier, submission, db,
                   response>>
    /\ UNCHANGED direct_vars
    /\ UNCHANGED shared_vars

\* log_submission_event(...); submission_tracker.record_success(submission.id, ...)
Record ==
    /\ pc = "record"
    /\ calls' = Append(calls, "record_success")
    /\ submission_tracker' = record_success(submission_tracker, submission.id)
    /\ pc' = "respond"
    /\ UNCHANGED <<req, data, validation_result, lead_score, tier, submission, db,
                   response>>
    /\ UNCHANGED direct_vars
    /\ UNCHANGED shared_vars

\* return jsonify({'success': True, ...})
Respond ==
    /\ pc = "respond"
    /\ response' = [status |-> 200, submission_id |-> submission.id,
                    lead_score |-> lead_score, tier |-> tier]
    /\ pc' = "done"
    /\ UNCHANGED <<req, data, validation_result, lead_score, tier, submission, db,
                   submission_tracker, calls>>
    /\ UNCHANGED direct_vars
    /\ UNCHANGED shared_vars

Next ==
    \/ GetJson
    \/ Sanitize
    \/ Validate
    \/ Score
    \/ AssignTier
    \/ Create
    \/ Commit
    \/ CommitFails
    \/ Record
    \/ Respond

Spec == Init /\ [][Next]_vars

----------------------------------------------------------------------------
(* Direct calls of the library functions, as a caller other than the       *)
(* /submit handler (a test, another route) makes them: the argument is     *)
(* drawn in the initial state and one function is applied to it.           *)

HandlerIdle ==
    /\ req = None
    /\ pc = "idle"
    /\ data = None
    /\ validation_result = None
    /\ lead_score = None
    /\ tier = None
    /\ submission = None
    /\ db = <<>>
    /\ submission_tracker = NewTracker
    /\ response = None
    /\ calls = <<>>

Direct(f, result) ==
    /\ called' = f
    /\ ret' = result
    /\ UNCHANGED arg
    /\ UNCHANGED handler_vars
    /\ UNCHANGED shared_vars

InitCalls ==
    /\ arg \in Requests
    /\ ret = None
    /\ called = "none"
    /\ HandlerIdle
    /\ SharedIdle

Call_validate_roi_submission ==
    /\ called = "none"
    /\ Direct("validate_roi_submission", validate_roi_submission(arg))

Call_validate_calculation_data ==
    /\ called = "none"
    /\ Direct("validate_calculation_data", validate_calculation_data(arg))

\* calculate_lead_score and, beside it, the three sub-scores it sums
SubScores(d) ==
    [demographic |-> calculate_demographic_score(d),
     behavioral |-> calculate_behavioral_score(d),
     fit |-> calculate_fit_score(d),
     score |-> calculate_lead_score(d)]

Call_calculate_lead_score ==
    /\ called = "none"
    /\ arg.t = "dict"
    /\ Direct("calculate_lead_score", SubScores(arg))

\* score(sanitize(data)) and score(sanitize(sanitize(data)))
ScoreOnceTwice(once, twice) ==
    [once |-> once, twice |-> twice,
     score_once |-> calculate_lead_score(once),
     score_twice |-> calculate_lead_score(twice)]

Call_sanitize_input ==
    /\ called = "none"
    /\ Direct("sanitize_input",
              ScoreOnceTwice(sanitize_input(arg),
                             sanitize_input(sanitize_input(arg))))

Call_sanitize_form_data ==
    /\ called = "none"
    /\ arg.t = "dict"
    /\ Direct("sanitize_form_data",
              ScoreOnceTwice(sanitize_form_data(arg),
                             sanitize_form_data(sanitize_form_data(arg))))

NextCalls ==
    \/ Call_validate_roi_submission
    \/ Call_validate_calculation_data
    \/ Call_calculate_lead_score
    \/ Call_sanitize_input
    \/ Call_sanitize_form_data

SpecCalls == InitCalls /\ [][NextCalls]_vars

\* assign_tier applied to a pair of scores
MaxScore == 150

InitTier ==
    /\ arg \in (0..MaxScore) \X (0..MaxScore)
    /\ ret = None
    /\ called = "none"
    /\ HandlerIdle
    /\ SharedIdle

Call_assign_tier ==
    /\ called = "none"
    /\ Direct("assign_tier", <<assign_tier(arg[1]), assign_tier(arg[2])>>)

NextTier == Call_assign_tier

SpecTier == InitTier /\ [][NextTier]_vars


----------------------------------------------------------------------------
(* sanitize_input on nested request bodies                                 *)

MaxDepth == 2

\* scalars and empty containers
Leaves ==
    {None, PyBool(TRUE), PyInt(7), PyFloat(15, 1), EmptyDict, PyList(<<>>),
     PyStr(<<"<","s","c","r","i","p","t",">","b","o","b","<","/","s","c","r","i","p","t",">">>), PyStr(<<"i","t","'","s"," ">> \o <<"\"">> \o <<"o","k">> \o <<"\"">>),
     PyStr(Rep("a", 998) \o <<"<","b",">","c","d">>)}

\* the values that sit beside a nested value in its container
Siblings == {PyInt(7), PyStr(<<"<","i",">">>), PyStr(Rep("'", 2) \o Rep("b", 1001))}

\* the containers that hold v
Wraps(v) ==
    {PyList(<<v>>), PyDict([name |-> v])}
        \cup {PyList(<<l, v>>) : l \in Siblings}
        \cup {PyDict([name |-> v, tags |-> l]) : l \in Siblings}

\* the values nested at most n deep
RECURSIVE Nested(_)
Nested(n) ==
    IF n = 0 THEN Leaves
    ELSE Nested(n - 1) \cup UNION {Wraps(v) : v \in Nested(n - 1)}

InitNested ==
    /\ arg \in Nested(MaxDepth)
    /\ ret = None
    /\ called = "none"
    /\ HandlerIdle
    /\ SharedIdle

NextNested == Call_sanitize_input

SpecNested == InitNested /\ [][NextNested]_vars


----------------------------------------------------------------------------
(* The sub-scorers on forms whose metrics lie at and around the band       *)
(* thresholds                                                              *)

BandSlack == 1

\* the integers within BandSlack of a threshold, and 0
Near(thresholds) ==
    {PyInt(0)} \cup UNION {{PyInt(n) : n \in (t - BandSlack)..(t + BandSlack)} :
                             t \in thresholds}

\* the floats 0.01 below and 0.01 above a threshold
JustBelow(thresholds) == {PyFloat(t * 100 - 1, 2) : t \in thresholds}
JustAbove(thresholds) == {PyFloat(t * 100 + 1, 2) : t \in thresholds}

BehavioralForms ==
    {[monthly_revenue |-> r, monthly_orders |-> o, average_order_value |-> a] :
        r \in Near({5000, 10000, 25000, 50000, 100000})
                \cup JustBelow({5000, 10000, 25000, 50000, 100000}),
        o \in Near({50, 200, 500, 1000}) \cup JustBelow({50, 200, 500, 1000}),
        a \in Near({25, 50, 100, 200}) \cup JustBelow({25, 50, 100, 200})}

FitForms ==
    {[conversion_rate |-> c, cart_abandonment_rate |-> b] :
        c \in Near({2, 3, 5, 8}) \cup JustBelow({2, 3, 5, 8}) \cup {PyInt(-1)},
        b \in Near({40, 50, 60, 70}) \cup JustAbove({40, 50, 60, 70})}
    \cup
    {[manual_hours_per_week |-> h, monthly_ad_spend |-> s] :
        h \in Near({1, 5, 10, 20}) \cup JustBelow({1, 5, 10, 20}),
        s \in Near({500, 2000, 5000, 10000}) \cup JustBelow({500, 2000, 5000, 10000})}
    \cup
    {[conversion_rate |-> PyInt(c), cart_abandonment_rate |-> PyInt(b),
      manual_hours_per_week |-> PyInt(h), monthly_ad_spend |-> PyInt(s)] :
        c \in {1, 4, 8}, b \in {40, 55, 71}, h \in {0, 10, 20}, s \in {499, 2000, 10000}}

\* category values: the keys of a table, and values that are no key
Categories(table) ==
    {PyStr(key) : key \in DOMAIN table}
        \cup {PyStr(<<"G","a","m","i","n","g">>), PyStr(<<>>), None, PyInt(5), PyList(<<>>)}

DemographicForms ==
    {Patch(Patch(Patch(Patch(<<>>, "company_size", size), "industry", industry),
                 "business_stage", stage), "website", website) :
        size \in Categories(size_scores) \cup {Absent},
        industry \in {PyStr(<<"E","-","c","o","m","m","e","r","c","e">>), PyStr(<<"O","t","h","e","r">>), PyStr(<<"G","a","m","i","n","g">>),
                      PyList(<<>>), Absent},
        stage \in Categories(stage_scores) \cup {Absent},
        website \in {PyStr(<<"h","t","t","p","s",":","/","/","s","h","o","p",".","c","o","m">>), PyStr(<<>>), None, Absent}}
    \cup
    {Patch(<<>>, "industry", industry) : industry \in Categories(industry_scores)}

ScoreForms == BehavioralForms \cup FitForms \cup DemographicForms \cup BaseForms

InitScore ==
    /\ arg \in {PyDict(form) : form \in ScoreForms}
    /\ ret = None
    /\ called = "none"
    /\ HandlerIdle
    /\ SharedIdle

Call_calculate_demographic_score ==
    /\ called = "none"
    /\ Direct("calculate_demographic_score", calculate_demographic_score(arg))

Call_calculate_behavioral_score ==
    /\ called = "none"
    /\ Direct("calculate_behavioral_score", calculate_behavioral_score(arg))

Call_calculate_fit_score ==
    /\ called = "none"
    /\ Direct("calculate_fit_score", calculate_fit_score(arg))

NextScore ==
    \/ Call_calculate_demographic_score
    \/ Call_calculate_behavioral_score
    \/ Call_calculate_fit_score
    \/ Call_calculate_lead_score

SpecScore == InitScore /\ [][NextScore]_vars

----------------------------------------------------------------------------
(* The tier-to-follow-up lookups of the scorer, the routes, the e-mail     *)
(* service and the HubSpot service, each a dict.get with its own default.  *)

\* table.get(x, default) for a table keyed by str; an unhashable key raises
GetOr(table, x, default) ==
    IF x.t \in {"list", "dict"} THEN Raise("TypeError")
    ELSE IF x.t = "str" /\ x.s \in DOMAIN table THEN Return(table[x.s])
    ELSE Return(default)

priorities ==
    (<<"H","o","t">> :> [timing |-> <<"1"," ","h","o","u","r">>, priority |-> <<"I","m","m","e","d","i","a","t","e">>,
                 approach |-> <<"P","h","o","n","e"," ","c","a","l","l"," ","+"," ","p","e","r","s","o","n","a","l","i","z","e","d"," ","e","m","a","i","l">>])
    @@ (<<"W","a","r","m">> :> [timing |-> <<"2","4"," ","h","o","u","r","s">>, priority |-> <<"H","i","g","h">>,
                     approach |-> <<"P","e","r","s","o","n","a","l","i","z","e","d"," ","e","m","a","i","l"," ","+"," ","f","o","l","l","o","w","-","u","p"," ","c","a","l","l">>])
    @@ (<<"C","o","l","d">> :> [timing |-> <<"3"," ","d","a","y","s">>, priority |-> <<"S","t","a","n","d","a","r","d">>,
                     approach |-> <<"E","m","a","i","l"," ","n","u","r","t","u","r","e"," ","s","e","q","u","e","n","c","e">>])

get_follow_up_priority(x) == GetOr(priorities, x, priorities[<<"C","o","l","d">>])

\* a table that answers Hot and Cold with each other's delay
follow_up_times_swapped ==
    (<<"H","o","t">> :> <<"3"," ","d","a","y","s">>) @@ (<<"W","a","r","m">> :> <<"2","4"," ","h","o","u","r","s">>)
    @@ (<<"C","o","l","d">> :> <<"1"," ","h","o","u","r">>)

follow_up_times ==
    (<<"H","o","t">> :> <<"1"," ","h","o","u","r">>) @@ (<<"W","a","r","m">> :> <<"2","4"," ","h","o","u","r","s">>)
    @@ (<<"C","o","l","d">> :> <<"3"," ","d","a","y","s">>)

get_follow_up_time(x) == GetOr(follow_up_times, x, <<"2","4"," ","h","o","u","r","s">>)

times ==
    (<<"H","o","t">> :> <<"1"," ","h","o","u","r">>) @@ (<<"W","a","r","m">> :> <<"2","4"," ","h","o","u","r","s">>)
    @@ (<<"C","o","l","d">> :> <<"3"," ","d","a","y","s">>)

EmailService_get_follow_up_time(x) == GetOr(times, x, <<"2","4"," ","h","o","u","r","s">>)

timing_map == (<<"H","o","t">> :> 1) @@ (<<"W","a","r","m">> :> 24) @@ (<<"C","o","l","d">> :> 72)

\* the delay create_follow_up_task computes before it builds the task
hours_delay(x) == GetOr(timing_map, x, 24)

\* what reaches a lookup: the three tiers, other strings, null, a score
\* passed in place of its tier, and JSON containers
TierArgs ==
    {PyStr(<<"H","o","t">>), PyStr(<<"W","a","r","m">>), PyStr(<<"C","o","l","d">>), PyStr(<<"h","o","t">>),
     PyStr(<<"H","O","T">>), PyStr(<<"c","o","l","d">>), PyStr(<<"U","n","k","n","o","w","n">>), PyStr(<<>>),
     None, PyBool(TRUE), PyList(<<>>), PyList(<<PyStr(<<"H","o","t">>)>>), EmptyDict}
    \cup {PyInt(n) : n \in 0..MaxScore}

InitFollowUp ==
    /\ arg \in TierArgs
    /\ ret = None
    /\ called = "none"
    /\ HandlerIdle
    /\ SharedIdle

Call_get_follow_up_priority ==
    /\ called = "none"
    /\ Direct("get_follow_up_priority", get_follow_up_priority(arg))

Call_get_follow_up_time ==
    /\ called = "none"
    /\ Direct("get_follow_up_time", get_follow_up_time(arg))

Call_EmailService_get_follow_up_time ==
    /\ called = "none"
    /\ Direct("EmailService.get_follow_up_time",
              EmailService_get_follow_up_time(arg))

\* HubSpotService.create_follow_up_task(contact_id, tier): the task is due
\* hours_delay from now and `posted` tells whether HubSpot took it; whatever
\* is raised on the way is caught and answered with success False
create_follow_up_task(x, posted) ==
    IF ~hours_delay(x).ok THEN Return([success |-> FALSE])
    ELSE Return([success |-> posted, hours_delay |-> hours_delay(x).v])

Call_create_follow_up_task(posted) ==
    /\ called = "none"
    /\ Direct("create_follow_up_task", create_follow_up_task(arg, posted))

NextFollowUp ==
    \/ Call_get_follow_up_priority
    \/ Call_get_follow_up_time
    \/ Call_EmailService_get_follow_up_time
    \/ \E posted \in BOOLEAN : Call_create_follow_up_task(posted)

SpecFollowUp == InitFollowUp /\ [][NextFollowUp]_vars

----------------------------------------------------------------------------
(* POST /calculate: the handler runs from the parsed body to its response  *)
(* without touching shared state, so it is one function of the body.       *)

\* monthly_revenue * (percent / 100) * factor, a binary floating-point
\* product that is kept as its operands
Product(x, percent, factor) ==
    [base |-> x, percent |-> percent, factor |-> factor]

Scenario(x, percent, roi, months, conversion, cost) ==
    [monthly_revenue |-> Product(x, 100 + percent, 1),
     monthly_increase |-> Product(x, percent, 1),
     annual_benefit |-> Product(x, percent, 12),
     roi_percentage |-> roi,
     break_even_months |-> months,
     conversion_improvement |-> conversion,
     cost_reduction |-> cost]

projections(x) ==
    [conservative |-> Scenario(x, 10, 150, 6, "15%", "8%"),
     expected |-> Scenario(x, 30, 400, 5, "25%", "15%"),
     optimistic |-> Scenario(x, 50, 700, 4, "40%", "25%")]

CalculationFailed ==
    [status |-> 500, error |-> "Calculation failed"]

\* if not monthly_revenue or float(monthly_revenue) <= 0: ... ; projections
Projected(monthly_revenue, value) ==
    IF ~Truthy(monthly_revenue)
    THEN [status |-> 400, error |-> "Valid monthly revenue is required"]
    ELSE IF ~value.ok THEN CalculationFailed
    ELSE IF FLe(value.v, 0)
    THEN [status |-> 400, error |-> "Valid monthly revenue is required"]
    ELSE [status |-> 200, success |-> TRUE, projections |-> projections(value.v)]

\* data.get('monthly_revenue') on the sanitized body
Calculated(d) ==
    IF d.t # "dict" THEN CalculationFailed
    ELSE Projected(Get(d, "monthly_revenue", None),
                   ToFloat(Get(d, "monthly_revenue", None)))

calculate_roi(body) ==
    IF ~Truthy(body) THEN [status |-> 400, error |-> "No data provided"]
    ELSE Calculated(sanitize_input(body))

\* revenues at and around 0 and the ceiling, as numbers and as text, and
\* values that are not numbers
Revenues ==
    Near({1, 5000, 10000000, 20000000}) \cup JustBelow({1, 10000000})
    \cup JustAbove({0, 10000000})
    \cup {PyInt(0 - 1), PyInt(0 - 5000), PyFloat(0 - 5, 1), NaN, Inf, NegInf,
          None, PyBool(TRUE), PyBool(FALSE),
          PyList(<<>>), PyList(<<PyInt(5000)>>), EmptyDict,
          PyStr(<<>>), PyStr(<<"a","b","c">>), PyStr(<<"n","a","n">>), PyStr(<<"i","n","f">>),
          PyStr(<<"-","i","n","f">>), PyStr(<<"0">>), PyStr(<<"-","5">>), PyStr(<<"5","0","0","0">>),
          PyStr(<<" ","5","0","0","0"," ">>), PyStr(<<"\f","5","0","0","0">>), PyStr(<<"\\x1c">> \o <<"5","0","0","0">>),
          PyStr(<<"\\xa0">> \o <<"5","0","0","0">>),
          PyStr(<<"\\u0665", "\\u0660", "\\u0660", "\\u0660">>), PyStr(<<"1","e","-","4","0","0">>),
          PyStr(<<"1","e","4","0","0">>), PyStr(<<"<","5","0","0","0",">">>), PyStr(<<"5",",","0","0","0">>),
          PyStr(<<"$","5","0","0","0">>), PyStr(<<"1","e","3">>), PyStr(<<"0",".","5">>),
          PyStr(<<"1","0","0","0","0","0","0","0">>), PyStr(<<"1","0","0","0","0","0","0","0",".","0","1">>), PyStr(<<"1","0","0","0","0","0","0","1">>),
          PyStr(<<"2","0","0","0","0","0","0","0">>)}

CalcRequests ==
    {PyDict([monthly_revenue |-> r]) : r \in Revenues}
    \cup {PyDict([monthly_revenue |-> r, average_order_value |-> PyInt(50)]) :
            r \in Revenues}
    \cup {EmptyDict, None, PyDict([average_order_value |-> PyInt(50)]),
          PyList(<<>>), PyList(<<PyInt(5000)>>), PyStr(<<"5","0","0","0">>), PyInt(5000),
          PyInt(0), PyBool(TRUE)}

InitCalc ==
    /\ arg \in CalcRequests
    /\ ret = None
    /\ called = "none"
    /\ HandlerIdle
    /\ SharedIdle

Call_calculate_roi ==
    /\ called = "none"
    /\ Direct("calculate_roi", calculate_roi(arg))

NextCalc ==
    \/ Call_calculate_roi
    \/ Call_validate_calculation_data

SpecCalc == InitCalc /\ [][NextCalc]_vars

----------------------------------------------------------------------------
(* The follow-up lookups on the tiers assign_tier produces.                *)

\* the str assign_tier returns, as a value passed on to a lookup
TierStr(t) ==
    IF t = "Hot" THEN PyStr(<<"H","o","t">>)
    ELSE IF t = "Warm" THEN PyStr(<<"W","a","r","m">>)
    ELSE PyStr(<<"C","o","l","d">>)

\* every follow-up lookup of the repository on the tier of a score
FollowUps(score) ==
    [tier |-> assign_tier(score),
     priority |-> get_follow_up_priority(TierStr(assign_tier(score))),
     route |-> get_follow_up_time(TierStr(assign_tier(score))),
     email |-> EmailService_get_follow_up_time(TierStr(assign_tier(score))),
     hubspot |-> hours_delay(TierStr(assign_tier(score)))]

InitTierFollowUp ==
    /\ arg \in (0..MaxScore) \X (0..MaxScore)
    /\ ret = None
    /\ called = "none"
    /\ HandlerIdle
    /\ SharedIdle

Call_follow_ups ==
    /\ called = "none"
    /\ Direct("follow_ups", <<FollowUps(arg[1]), FollowUps(arg[2])>>)

NextTierFollowUp ==
    \/ Call_follow_ups

SpecTierFollowUp == InitTierFollowUp /\ [][NextTierFollowUp]_vars

----------------------------------------------------------------------------
(* The category fields on their way through the validator and the          *)
(* demographic scorer.                                                     *)

\* what a client sends as a category: every value the validator accepts,
\* every key of the scoring table, and values that are neither
CategoryValues(valid, table) ==
    {PyStr(s) : s \in valid \cup DOMAIN table}
        \cup {PyStr(<<"G","a","m","i","n","g">>), PyStr(<<"s","a","a","s">>), PyStr(<<"<","G","r","o","w","t","h",">">>),
              PyStr(<<"'","1","-","1","0","'">>), PyStr(<<>>), None, PyInt(0), PyInt(5),
              PyBool(TRUE), PyList(<<>>), PyList(<<PyStr(<<"S","a","a","S">>)>>), Absent}

CategoryForms ==
    {Patch(Patch(Patch(MinimalForm, "company_size", size), "industry", industry),
           "business_stage", stage) :
        size \in CategoryValues(valid_sizes, size_scores),
        industry \in CategoryValues(valid_industries, industry_scores),
        stage \in CategoryValues(valid_stages, stage_scores)}

\* validate_roi_submission(d), and what calculate_demographic_score(d) adds
\* for each category of d
Contributions(d) ==
    [data |-> d,
     validation |-> validate_roi_submission(d),
     company_size |-> Lookup(size_scores, Get(d, "company_size", PyStr(<<>>))),
     industry |-> Lookup(industry_scores, Get(d, "industry", PyStr(<<>>))),
     business_stage |-> Lookup(stage_scores, Get(d, "business_stage", PyStr(<<>>))),
     demographic |-> calculate_demographic_score(d)]

InitCategories ==
    /\ arg \in {PyDict(form) : form \in CategoryForms}
    /\ ret = None
    /\ called = "none"
    /\ HandlerIdle
    /\ SharedIdle

\* the validator and the scorer called on the form as it is
Call_validate_and_score ==
    /\ called = "none"
    /\ Direct("validate_and_score", Contributions(arg))

\* as submit_roi_form calls them: data = sanitize_input(data) first
Call_sanitize_validate_and_score ==
    /\ called = "none"
    /\ Direct("sanitize_validate_and_score", Contributions(sanitize_input(arg)))

NextCategories ==
    \/ Call_validate_and_score
    \/ Call_sanitize_validate_and_score

SpecCategories == InitCategories /\ [][NextCategories]_vars

----------------------------------------------------------------------------
(* utils/security.py rate_limit: the wrapper decorated_function, one       *)
(* thread per request, each statement one step; a thread that has          *)
(* returned is idle again. Timestamps are seconds; the clock advances      *)
(* TickSeconds at a time.                                                  *)

TickSeconds == 30
MaxTicks == 3
MaxLimit == 2
MaxWindowMinutes == 1
MaxCalls == 4
MaxThreads == 2

Threads == 1..MaxThreads

\* stats[key] += 1 on a defaultdict(int)
Bump(stats, key) ==
    [k \in DOMAIN stats \cup {key} |->
        (IF k \in DOMAIN stats THEN stats[k] ELSE 0) + (IF k = key THEN 1 ELSE 0)]

\* the sum of the counters of a defaultdict(int)
RECURSIVE Total(_)
Total(stats) ==
    IF DOMAIN stats = {} THEN 0
    ELSE LET k == CHOOSE key \in DOMAIN stats : TRUE
         IN stats[k] + Total([j \in DOMAIN stats \ {k} |-> stats[j]])

\* the calls made so far on the shared objects: requests that entered a
\* wrapper, records of the tracker and of the monitors
Activity ==
    Len(log) + submission_tracker.success_count + submission_tracker.error_count
    + Total(monitors.email_stats) + Total(monitors.hubspot_stats)

Addrs == {"10.0.0.1", "10.0.0.2"}

\* request.environ and request.remote_addr; the header is <<>> when absent
Environs == [remote_addr : Addrs, HTTP_X_FORWARDED_FOR : {<<>>} \cup {<<a>> : a \in Addrs}]

\* request.environ.get('HTTP_X_FORWARDED_FOR', request.remote_addr)
ClientIp(environ) ==
    IF environ.HTTP_X_FORWARDED_FOR # <<>> THEN environ.HTTP_X_FORWARDED_FOR[1]
    ELSE environ.remote_addr

window_seconds == limit.window_minutes * 60

\* rate_limit_storage[ip] of the defaultdict: a missing key is an empty deque
Queue(storage, ip) == IF ip \in DOMAIN storage THEN storage[ip] ELSE <<>>

\* rate_limit_storage[ip] = q, the key created if it was missing
Store(storage, ip, q) ==
    [k \in DOMAIN storage \cup {ip} |-> IF k = ip THEN q ELSE storage[k]]

\* fault injection for C23: a timestamp exactly one window old is evicted
ExpiredAtWindow(current_time, oldest, window) == current_time - oldest >= window

\* fault injection for C26: a timestamp is evicted a window late
ExpiredLate(current_time, oldest, window) == current_time - oldest > 2 * window

\* current_time - rate_limit_storage[client_ip][0] > window_seconds
Expired(current_time, oldest, window) == current_time - oldest > window

\* len(rate_limit_storage[client_ip]) >= max_requests
AtLimit(queue, max_requests) == Len(queue) >= max_requests

IdleThread == [pc |-> "idle", client_ip |-> "", current_time |-> 0, n |-> 0]

Running(th) == threads[th].pc # "idle"

Outcome(th, outcome) == [log EXCEPT ![threads[th].n].outcome = outcome]

InitLimiter ==
    /\ rate_limit_storage = <<>>
    /\ clock = 0
    /\ limit \in [max_requests : 0..MaxLimit, window_minutes : 1..MaxWindowMinutes]
    /\ threads = [th \in Threads |-> IdleThread]
    /\ log = <<>>
    /\ monitors = NewMonitors
    /\ HandlerIdle
    /\ DirectIdle

\* client_ip = ...; current_time = time.time(); window_seconds = ...
\* (the log keeps the client's deque as the request found it)
Enter(th, environ) ==
    /\ ~Running(th)
    /\ Activity < MaxCalls
    /\ threads' = [threads EXCEPT ![th] =
                     [pc |-> "clean", client_ip |-> ClientIp(environ),
                      current_time |-> clock, n |-> Len(log) + 1]]
    /\ log' = Append(log, [ip |-> ClientIp(environ), time |-> clock,
                           queue |-> Queue(rate_limit_storage, ClientIp(environ)),
                           outcome |-> "pending"])
    /\ UNCHANGED <<rate_limit_storage, clock, limit, monitors>>
    /\ UNCHANGED handler_vars
    /\ UNCHANGED direct_vars

\* the same, when requests are served one at a time
EnterAlone(th, environ) ==
    /\ \A other \in Threads : ~Running(other)
    /\ Enter(th, environ)

\* while rate_limit_storage[client_ip] and current_time - ...[0] > window_seconds:
\* for a key the defaultdict does not hold, __missing__ calls the factory
\* `lambda: deque()` here and stores its deque in a later step
CleanTest(th) ==
    /\ threads[th].pc = "clean"
    /\ threads' = [threads EXCEPT ![th].pc =
         IF threads[th].client_ip \notin DOMAIN rate_limit_storage
         THEN "missing"
         ELSE IF /\ rate_limit_storage[threads[th].client_ip] # <<>>
                 /\ Expired(threads[th].current_time,
                            rate_limit_storage[threads[th].client_ip][1],
                            window_seconds)
         THEN "popleft" ELSE "check"]
    /\ UNCHANGED rate_limit_storage
    /\ UNCHANGED <<clock, limit, log, monitors>>
    /\ UNCHANGED handler_vars
    /\ UNCHANGED direct_vars

\* defaultdict.__missing__ after the factory has returned: self[key] = value,
\* whatever the key holds by now; the empty deque ends the while loop
StoreDefault(th) ==
    /\ threads[th].pc = "missing"
    /\ rate_limit_storage' = Store(rate_limit_storage, threads[th].client_ip, <<>>)
    /\ threads' = [threads EXCEPT ![th].pc = "check"]
    /\ UNCHANGED <<clock, limit, log, monitors>>
    /\ UNCHANGED handler_vars
    /\ UNCHANGED direct_vars

\* rate_limit_storage[client_ip].popleft(); IndexError on an empty deque
Popleft(th) ==
    /\ threads[th].pc = "popleft"
    /\ IF Queue(rate_limit_storage, threads[th].client_ip) = <<>>
       THEN /\ threads' = [threads EXCEPT ![th] = IdleThread]
            /\ log' = Outcome(th, "error")
            /\ UNCHANGED rate_limit_storage
       ELSE /\ threads' = [threads EXCEPT ![th].pc = "clean"]
            /\ rate_limit_storage' =
                 Store(rate_limit_storage, threads[th].client_ip,
                       Tail(Queue(rate_limit_storage, threads[th].client_ip)))
            /\ UNCHANGED log
    /\ UNCHANGED <<clock, limit, monitors>>
    /\ UNCHANGED handler_vars
    /\ UNCHANGED direct_vars

\* fault injection for C25: a rejected request is recorded like an accepted one
CheckRecording(th) ==
    /\ threads[th].pc = "check"
    /\ IF AtLimit(Queue(rate_limit_storage, threads[th].client_ip), limit.max_requests)
       THEN /\ threads' = [threads EXCEPT ![th] = IdleThread]
            /\ log' = Outcome(th, "429")
            /\ rate_limit_storage' =
                 Store(rate_limit_storage, threads[th].client_ip,
                       Append(Queue(rate_limit_storage, threads[th].client_ip),
                              threads[th].current_time))
       ELSE /\ threads' = [threads EXCEPT ![th].pc = "append"]
            /\ UNCHANGED <<log, rate_limit_storage>>
    /\ UNCHANGED <<clock, limit, monitors>>
    /\ UNCHANGED handler_vars
    /\ UNCHANGED direct_vars

\* if len(rate_limit_storage[client_ip]) >= max_requests: return ..., 429
Check(th) ==
    /\ threads[th].pc = "check"
    /\ IF AtLimit(Queue(rate_limit_storage, threads[th].client_ip), limit.max_requests)
       THEN /\ threads' = [threads EXCEPT ![th] = IdleThread]
            /\ log' = Outcome(th, "429")
       ELSE /\ threads' = [threads EXCEPT ![th].pc = "append"]
            /\ UNCHANGED log
    /\ UNCHANGED <<rate_limit_storage, clock, limit, monitors>>
    /\ UNCHANGED handler_vars
    /\ UNCHANGED direct_vars

\* rate_limit_storage[client_ip].append(current_time)
AppendStamp(th) ==
    /\ threads[th].pc = "append"
    /\ rate_limit_storage' =
         Store(rate_limit_storage, threads[th].client_ip,
               Append(Queue(rate_limit_storage, threads[th].client_ip),
                      threads[th].current_time))
    /\ threads' = [threads EXCEPT ![th].pc = "call"]
    /\ log' = Outcome(th, "accepted")
    /\ UNCHANGED <<clock, limit, monitors>>
    /\ UNCHANGED handler_vars
    /\ UNCHANGED direct_vars

\* return f(*args, **kwargs)
CallWrapped(th) ==
    /\ threads[th].pc = "call"
    /\ threads' = [threads EXCEPT ![th] = IdleThread]
    /\ log' = Outcome(th, "handled")
    /\ UNCHANGED <<rate_limit_storage, clock, limit, monitors>>
    /\ UNCHANGED handler_vars
    /\ UNCHANGED direct_vars

\* time passes
Tick ==
    /\ clock < MaxTicks * TickSeconds
    /\ clock' = clock + TickSeconds
    /\ UNCHANGED <<rate_limit_storage, limit, threads, log, monitors>>
    /\ UNCHANGED handler_vars
    /\ UNCHANGED direct_vars

\* requests of any clients, their wrappers interleaved
NextLimiter ==
    \/ \E th \in Threads, environ \in Environs : Enter(th, environ)
    \/ \E th \in Threads : CleanTest(th)
    \/ \E th \in Threads : StoreDefault(th)
    \/ \E th \in Threads : Popleft(th)
    \/ \E th \in Threads : Check(th)
    \/ \E th \in Threads : AppendStamp(th)
    \/ \E th \in Threads : CallWrapped(th)
    \/ Tick

SpecLimiter == InitLimiter /\ [][NextLimiter]_vars

\* requests served one after the other
NextSequential ==
    \/ \E th \in Threads, environ \in Environs : EnterAlone(th, environ)
    \/ \E th \in Threads : CleanTest(th)
    \/ \E th \in Threads : StoreDefault(th)
    \/ \E th \in Threads : Popleft(th)
    \/ \E th \in Threads : Check(th)
    \/ \E th \in Threads : AppendStamp(th)
    \/ \E th \in Threads : CallWrapped(th)
    \/ Tick

SpecSequential == InitLimiter /\ [][NextSequential]_vars

----------------------------------------------------------------------------
(* utils/monitoring.py: the SubmissionTracker, EmailMonitor and            *)
(* HubSpotMonitor singletons, their methods called in any order.           *)

MaxIds == 2

SubmissionIds == 1..MaxIds
ErrorTypes == {"database"}
EmailTypes == {"confirmation"}
SyncTypes == {"contact"}

InitTracker ==
    /\ HandlerIdle
    /\ DirectIdle
    /\ SharedIdle

\* submission_tracker.record_success(submission_id, processing_time)
Call_record_success(submission_id) ==
    /\ Activity < MaxCalls
    /\ submission_tracker' = record_success(submission_tracker, submission_id)
    /\ UNCHANGED <<req, pc, data, validation_result, lead_score, tier, submission,
                   db, response, calls>>
    /\ UNCHANGED direct_vars
    /\ UNCHANGED shared_vars

\* submission_tracker.record_error(submission_id, error_type, error_message)
Call_record_error(submission_id, error_type) ==
    /\ Activity < MaxCalls
    /\ submission_tracker' =
         record_error(submission_tracker, submission_id, error_type, "message")
    /\ UNCHANGED <<req, pc, data, validation_result, lead_score, tier, submission,
                   db, response, calls>>
    /\ UNCHANGED direct_vars
    /\ UNCHANGED shared_vars

\* submission_tracker.get_stats()
Call_get_stats ==
    /\ called' = "get_stats"
    /\ ret' = get_stats(submission_tracker)
    /\ UNCHANGED arg
    /\ UNCHANGED handler_vars
    /\ UNCHANGED shared_vars

NextTracker ==
    \/ \E id \in SubmissionIds : Call_record_success(id)
    \/ \E id \in SubmissionIds, error_type \in ErrorTypes : Call_record_error(id, error_type)
    \/ Call_get_stats

SpecTracker == InitTracker /\ [][NextTracker]_vars

\* email_monitor.record_email_sent / record_email_error: the counter
\* f'{email_type}_{suffix}', its key kept as the pair of its two parts
Call_record_email(email_type, suffix) ==
    /\ Activity < MaxCalls
    /\ monitors' = [monitors EXCEPT
                      !.email_stats = Bump(@, <<email_type, suffix>>)]
    /\ UNCHANGED <<rate_limit_storage, clock, limit, threads, log>>
    /\ UNCHANGED handler_vars
    /\ UNCHANGED direct_vars

\* hubspot_monitor.record_sync_success / record_sync_error
Call_record_sync(sync_type, suffix) ==
    /\ Activity < MaxCalls
    /\ monitors' = [monitors EXCEPT
                      !.hubspot_stats = Bump(@, <<sync_type, suffix>>)]
    /\ UNCHANGED <<rate_limit_storage, clock, limit, threads, log>>
    /\ UNCHANGED handler_vars
    /\ UNCHANGED direct_vars

----------------------------------------------------------------------------
(* The two POST routes as routes/roi_calculator_secure.py registers them:  *)
(* @roi_bp.route(...) sits directly on calculate_roi and submit_roi_form,  *)
(* no rate_limit(...) between the route and the view function, and       *)
(* main_secure.py runs security_middleware before each of them. Requests   *)
(* are served one after the other; log keeps, for each client address,     *)
(* the times of its requests.                                              *)

MaxPosts == 11
MaxBurstTicks == 1

SubmitBodies ==
    {PyDict(FullForm), PyDict(Patch(MinimalForm, "email", Absent)), EmptyDict}

CalculateBodies == {PyDict([monthly_revenue |-> PyInt(5000)]), EmptyDict}

\* the requests received so far
Posts == LET n[s \in SUBSET Addrs] ==
                 IF s = {} THEN 0
                 ELSE LET ip == CHOOSE a \in s : TRUE
                      IN Len(log[ip]) + n[s \ {ip}]
         IN n[Addrs]

\* no request is being served
Quiet == pc \in {"idle", "done"}

InitServer ==
    /\ req = None
    /\ pc = "idle"
    /\ data = None
    /\ validation_result = None
    /\ lead_score = None
    /\ tier = None
    /\ submission = None
    /\ db = <<>>
    /\ submission_tracker = NewTracker
    /\ response = None
    /\ calls = <<>>
    /\ DirectIdle
    /\ rate_limit_storage = <<>>
    /\ clock = 0
    /\ limit = None
    /\ threads = <<IdleThread>>
    /\ log = [ip \in Addrs |-> <<>>]
    /\ monitors = NewMonitors

\* the `except Exception` of the application: @app.errorhandler(500)
InternalError == [status |-> 500, error |-> "Internal server error"]

\* security_middleware (@app.before_request) on a JSON body: a body that is
\* not empty is assigned back sanitized, request.json = sanitize_input(...),
\* which the request class of the installed Flask takes or refuses with
\* AttributeError
security_middleware(body) ==
    IF Truthy(body)
    THEN {Return(sanitize_input(body)), Raise("AttributeError")}
    ELSE {Return(body)}

\* the dispatch of a request: to its view function, or to the error handler
\* when the middleware has raised
Dispatched(environ, before) ==
    /\ threads' = <<[pc |-> IF before.ok THEN "view" ELSE "error",
                     client_ip |-> ClientIp(environ),
                     current_time |-> clock,
                     n |-> Len(log[ClientIp(environ)]) + 1]>>
    /\ log' = [log EXCEPT ![ClientIp(environ)] = Append(@, clock)]
    /\ UNCHANGED <<rate_limit_storage, clock, limit, monitors>>

\* POST /calculate: calculate_roi runs to its response
Post_calculate(environ, body, before) ==
    /\ Quiet
    /\ Posts < MaxPosts
    /\ Dispatched(environ, before)
    /\ req' = IF before.ok THEN before.v ELSE body
    /\ response' = IF before.ok THEN calculate_roi(before.v) ELSE InternalError
    /\ pc' = "done"
    /\ data' = None
    /\ validation_result' = None
    /\ lead_score' = None
    /\ tier' = None
    /\ submission' = None
    /\ calls' = <<>>
    /\ UNCHANGED <<db, submission_tracker>>
    /\ UNCHANGED direct_vars

\* POST /submit: submit_roi_form starts
Post_submit(environ, body, before) ==
    /\ Quiet
    /\ Posts < MaxPosts
    /\ Dispatched(environ, before)
    /\ req' = IF before.ok THEN before.v ELSE body
    /\ response' = IF before.ok THEN None ELSE InternalError
    /\ pc' = IF before.ok THEN "get_json" ELSE "done"
    /\ data' = None
    /\ validation_result' = None
    /\ lead_score' = None
    /\ tier' = None
    /\ submission' = None
    /\ calls' = <<>>
    /\ UNCHANGED <<db, submission_tracker>>
    /\ UNCHANGED direct_vars

\* time passes between two requests
Elapse ==
    /\ Quiet
    /\ clock < MaxBurstTicks * TickSeconds
    /\ clock' = clock + TickSeconds
    /\ UNCHANGED <<rate_limit_storage, limit, threads, log, monitors>>
    /\ UNCHANGED handler_vars
    /\ UNCHANGED direct_vars

NextServer ==
    \/ \E environ \in Environs, body \in CalculateBodies :
          \E before \in security_middleware(body) : Post_calculate(environ, body, before)
    \/ \E environ \in Environs, body \in SubmitBodies :
          \E before \in security_middleware(body) : Post_submit(environ, body, before)
    \/ Elapse
    \/ GetJson
    \/ Sanitize
    \/ Validate
    \/ Score
    \/ AssignTier
    \/ Create
    \/ Commit
    \/ CommitFails
    \/ Record
    \/ Respond

SpecServer == InitServer /\ [][NextServer]_vars

----------------------------------------------------------------------------
(* Concurrent invocations of the four core functions on one input mapping, *)
(* each running one statement at a time, while requests pass a rate_limit  *)
(* wrapper and the tracker and the monitors are written: the statements of *)
(* all of them interleave, all within one reading of the clock.            *)

MaxWorkers == 2
MaxShared == 2

\* the threads that invoke a core function
Workers == (MaxThreads + 1)..(MaxThreads + MaxWorkers)

\* a form whose name and industry the sanitizer rewrites
SharedArgs ==
    {PyDict(Patch(Patch(MinimalForm, "first_name", PyStr(<<"<","A","l",">">>)),
                  "industry", PyStr(<<"<","S","a","a","S",">">>)))}

\* the request, and the submission, of the activity beside the invocations
SharedEnvirons == {[remote_addr |-> "10.0.0.1", HTTP_X_FORWARDED_FOR |-> <<>>]}
SharedIds == {1}

\* data.items(): the keys of the form in the order a request body lists
\* them, and in the opposite order
SharedItems ==
    {<<"first_name", "last_name", "email", "monthly_revenue",
       "average_order_value", "monthly_orders", "industry">>,
     <<"industry", "monthly_orders", "average_order_value", "monthly_revenue",
       "email", "last_name", "first_name">>}

\* assign_tier(lead_score): the scores it is invoked with
TierScores == {59, 60, 100}

\* what a statement of sanitize_input (utils/security.py), of
\* validate_roi_submission (utils/validation.py) or of a scorer
\* (utils/lead_scoring.py) can reach: the mapping it was passed and the
\* singletons of the process
Heap ==
    [input |-> arg, rate_limit_storage |-> rate_limit_storage,
     submission_tracker |-> submission_tracker, monitors |-> monitors]

\* the frame of an invocation: the function, the statement it is at, its
\* local (the dict or the sum it builds), the mapping as it was passed, the
\* outcome once it has returned, whether another invocation was running
\* during one of its statements, and the keys of the mapping in the order
\* data.items() gives them
IdleWorker(items) ==
    [pc |-> "idle", func |-> "none", at |-> 0, local |-> None, given |-> None,
     ret |-> None, overlapped |-> FALSE, items |-> items]

\* return outcome / raise
Returned(frame, outcome) == [frame EXCEPT !.pc = "returned", !.ret = outcome]

\* a dict after d[key] = value
Assigned(d, key, value) ==
    [k \in DOMAIN d \cup {key} |-> IF k = key THEN value ELSE d[k]]

\* a dict after d[key] = value for every item of `items`
Updated(d, items) ==
    [k \in DOMAIN d \cup DOMAIN items |-> IF k \in DOMAIN items THEN items[k] ELSE d[k]]

\* a sanitizer that cleans the mapping it was passed in place:
\* data[key] = sanitize_input(value); return data
SanitizeItemInPlace(frame, heap) ==
    IF heap.input.t # "dict"
    THEN [frame |-> Returned(frame, Return(sanitize_input(heap.input))), heap |-> heap]
    ELSE IF frame.at > Len(frame.items)
    THEN [frame |-> Returned(frame, Return(heap.input)), heap |-> heap]
    ELSE [frame |-> [frame EXCEPT !.at = @ + 1,
                                  !.local = Assigned(@, frame.items[frame.at], None)],
          heap |-> [heap EXCEPT !.input.kv =
                        Assigned(@, frame.items[frame.at],
                                 sanitize_input(@[frame.items[frame.at]]))]]

\* {key: sanitize_input(value) for key, value in data.items()}: one item of
\* the comprehension, the items in the order of the mapping, then the return
\* of the new dict
SanitizeItem(frame, heap) ==
    IF heap.input.t # "dict"
    THEN [frame |-> Returned(frame, Return(sanitize_input(heap.input))), heap |-> heap]
    ELSE IF frame.at > Len(frame.items)
    THEN [frame |-> Returned(frame, Return(PyDict(frame.local))), heap |-> heap]
    ELSE [frame |-> [frame EXCEPT !.at = @ + 1,
                                  !.local = Assigned(@, frame.items[frame.at],
                                                     sanitize_input(heap.input.kv[
                                                         frame.items[frame.at]]))],
          heap |-> heap]

\* what validate_roi_submission does with the outcome of its check number
\* frame.at: a raise ends it, an error is assigned into errors
Checked(frame, heap, outcome) ==
    IF ~outcome.ok THEN [frame |-> Returned(frame, outcome), heap |-> heap]
    ELSE [frame |-> [frame EXCEPT !.at = @ + 1, !.local = Updated(@, outcome.v)],
          heap |-> heap]

\* errors = {}; the checks in the order of the body, each reading its field
\* with data.get; return {'valid': len(errors) == 0, 'errors': errors}
ValidateCheck(frame, heap) ==
    IF heap.input.t # "dict"
    THEN [frame |-> Returned(frame, Raise("AttributeError")), heap |-> heap]
    ELSE IF frame.at \notin Steps
    THEN [frame |-> Returned(frame, Return([valid |-> (DOMAIN frame.local = {}),
                                            errors |-> frame.local])),
          heap |-> heap]
    ELSE Checked(frame, heap, Step(frame.at, Get(heap.input, StepField[frame.at], None)))

\* score += sub_score, or the exception of the sub-scorer
Added(frame, heap, sub_score) ==
    IF ~sub_score.ok THEN [frame |-> Returned(frame, sub_score), heap |-> heap]
    ELSE [frame |-> [frame EXCEPT !.at = @ + 1, !.local = @ + sub_score.v],
          heap |-> heap]

\* score = 0; score += calculate_demographic_score(data); score += ...;
\* score = max(0, min(150, score)); return score
ScoreTerm(frame, heap) ==
    IF heap.input.t # "dict"
    THEN [frame |-> Returned(frame, Raise("AttributeError")), heap |-> heap]
    ELSE CASE frame.at = 1 -> Added(frame, heap, calculate_demographic_score(heap.input))
           [] frame.at = 2 -> Added(frame, heap, calculate_behavioral_score(heap.input))
           [] frame.at = 3 -> Added(frame, heap, calculate_fit_score(heap.input))
           [] OTHER -> [frame |-> Returned(frame, Return(Clamp(frame.local))),
                        heap |-> heap]

\* if lead_score >= 100: return 'Hot' / elif lead_score >= 60: return 'Warm'
\* / else: return 'Cold'
TierTest(frame, heap) ==
    CASE frame.at = 1 /\ frame.local >= 100 ->
           [frame |-> Returned(frame, Return("Hot")), heap |-> heap]
      [] frame.at = 2 /\ frame.local >= 60 ->
           [frame |-> Returned(frame, Return("Warm")), heap |-> heap]
      [] frame.at = 3 ->
           [frame |-> Returned(frame, Return("Cold")), heap |-> heap]
      [] OTHER -> [frame |-> [frame EXCEPT !.at = @ + 1], heap |-> heap]

\* the frame and the heap after the next statement of the invocation
Executed(frame, heap) ==
    CASE frame.func = "sanitize_input" -> SanitizeItem(frame, heap)
      [] frame.func = "validate_roi_submission" -> ValidateCheck(frame, heap)
      [] frame.func = "calculate_lead_score" -> ScoreTerm(frame, heap)
      [] frame.func = "assign_tier" -> TierTest(frame, heap)

\* another invocation is between its first statement and its return
OtherRunning(w) == \E other \in Workers \ {w} : threads[other].pc = "running"

InitShared ==
    /\ arg \in SharedArgs
    /\ ret = None
    /\ called = "none"
    /\ HandlerIdle
    /\ rate_limit_storage = <<>>
    /\ clock = 0
    /\ limit = [max_requests |-> 1, window_minutes |-> 1]
    /\ \E items \in SharedItems :
           threads = [th \in Threads \cup Workers |->
                        IF th \in Threads THEN IdleThread ELSE IdleWorker(items)]
    /\ log = <<>>
    /\ monitors = NewMonitors

\* the workers are numbered in the order of their invocations
Turn(w) == \A v \in Workers : v < w => threads[v].pc # "idle"

\* f(data), f one of sanitize_input, validate_roi_submission and
\* calculate_lead_score: the call, before the first statement
Invoke(w, f) ==
    /\ threads[w].pc = "idle"
    /\ Turn(w)
    /\ threads' = [threads EXCEPT ![w] =
                     [threads[w] EXCEPT !.pc = "running", !.func = f, !.at = 1,
                                        !.local = IF f = "calculate_lead_score"
                                                  THEN 0 ELSE <<>>,
                                        !.given = arg]]
    /\ UNCHANGED <<rate_limit_storage, clock, limit, log, monitors>>
    /\ UNCHANGED handler_vars
    /\ UNCHANGED direct_vars

\* assign_tier(lead_score)
Invoke_assign_tier(w, score) ==
    /\ threads[w].pc = "idle"
    /\ Turn(w)
    /\ threads' = [threads EXCEPT ![w] =
                     [threads[w] EXCEPT !.pc = "running", !.func = "assign_tier",
                                        !.at = 1, !.local = score, !.given = score]]
    /\ UNCHANGED <<rate_limit_storage, clock, limit, log, monitors>>
    /\ UNCHANGED handler_vars
    /\ UNCHANGED direct_vars

\* the heap and the frame of w as a statement left them
Effected(w, after) ==
    /\ threads' = [threads EXCEPT ![w] =
                     [after.frame EXCEPT !.overlapped = @ \/ OtherRunning(w)]]
    /\ arg' = after.heap.input
    /\ rate_limit_storage' = after.heap.rate_limit_storage
    /\ submission_tracker' = after.heap.submission_tracker
    /\ monitors' = after.heap.monitors

\* the next statement of the invocation of w
Statement(w) ==
    /\ threads[w].pc = "running"
    /\ Effected(w, Executed(threads[w], Heap))
    /\ UNCHANGED <<req, pc, data, validation_result, lead_score, tier, submission,
                   db, response, calls, ret, called, clock, limit, log>>

\* a request enters the rate_limit wrapper, a submission is tracked, a
\* monitor counts: at most MaxShared of them in all
Meanwhile_enter(th, environ) ==
    /\ Activity < MaxShared
    /\ EnterAlone(th, environ)

Meanwhile_record_success(id) ==
    /\ Activity < MaxShared
    /\ Call_record_success(id)

Meanwhile_record_error(id, error_type) ==
    /\ Activity < MaxShared
    /\ Call_record_error(id, error_type)

Meanwhile_record_email(email_type, suffix) ==
    /\ Activity < MaxShared
    /\ Call_record_email(email_type, suffix)

Meanwhile_record_sync(sync_type, suffix) ==
    /\ Activity < MaxShared
    /\ Call_record_sync(sync_type, suffix)

NextShared ==
    \/ \E w \in Workers, f \in {"sanitize_input", "validate_roi_submission",
                               "calculate_lead_score"} : Invoke(w, f)
    \/ \E w \in Workers, score \in TierScores : Invoke_assign_tier(w, score)
    \/ \E w \in Workers : Statement(w)
    \/ \E th \in Threads, environ \in SharedEnvirons : Meanwhile_enter(th, environ)
    \/ \E th \in Threads : CleanTest(th)
    \/ \E th \in Threads : StoreDefault(th)
    \/ \E th \in Threads : Check(th)
    \/ \E th \in Threads : AppendStamp(th)
    \/ \E th \in Threads : CallWrapped(th)
    \/ \E id \in SharedIds : Meanwhile_record_success(id)
    \/ \E id \in SharedIds, error_type \in ErrorTypes : Meanwhile_record_error(id, error_type)
    \/ \E email_type \in EmailTypes, suffix \in {"sent", "error"} : Meanwhile_record_email(email_type, suffix)
    \/ \E sync_type \in SyncTypes, suffix \in {"success", "error"} : Meanwhile_record_sync(sync_type, suffix)

SpecShared == InitShared /\ [][NextShared]_vars

----------------------------------------------------------------------------
(* Properties: lead scoring and the /submit pipeline                       *)

\* the handler has called f
Called(f) == \E i \in DOMAIN calls : calls[i] = f

\* validate_roi_submission(d) returns valid
IsValid(r) == r.ok /\ r.v.valid

\* C1: for every input that validate_roi_submission reports valid,
\* calculate_lead_score and assign_tier return without raising: a /submit
\* request whose validation passed does not end before its tier is assigned.
C1_ValidInputIsScored ==
    (pc = "done" /\ validation_result # None /\ validation_result.valid)
        => Called("assign_tier")

\* C2: for every input that validate_roi_submission reports valid,
\* calculate_lead_score returns an integer between 0 and 150 inclusive.
C2_ValidScoreInRange ==
    (called = "calculate_lead_score" /\ IsValid(validate_roi_submission(arg)))
        => (ret.score.ok /\ ret.score.v \in 0..150)

\* a sub-score that was returned lies in [0, 50]
InBand(r) == r.ok => r.v \in 0..50

\* C3: each of the demographic, behavioral and fit sub-scores lies in
\* [0, 50], and the lead score is the sum of the three clamped to [0, 150];
\* it is returned exactly when all three sub-scores are.
C3_SubScoresSumClamped ==
    called = "calculate_lead_score" =>
        /\ InBand(ret.demographic)
        /\ InBand(ret.behavioral)
        /\ InBand(ret.fit)
        /\ ret.score.ok <=> (ret.demographic.ok /\ ret.behavioral.ok /\ ret.fit.ok)
        /\ ret.score.ok =>
              LET sum == ret.demographic.v + ret.behavioral.v + ret.fit.v
              IN ret.score.v = IF sum > 150 THEN 150 ELSE IF sum < 0 THEN 0 ELSE sum

\* C3's case: all three sub-scores are returned and each contributes
C3_Witness ==
    /\ called = "calculate_lead_score"
    /\ ret.score.ok
    /\ ret.demographic.v > 0
    /\ ret.behavioral.v > 0
    /\ ret.fit.v > 0
    /\ ret.score.v > 100

\* the tier the documented bands give a score, and the order of the tiers
BandOf(score) == IF score <= 59 THEN "Cold" ELSE IF score <= 99 THEN "Warm" ELSE "Hot"
TierRank(t) == CASE t = "Cold" -> 0 [] t = "Warm" -> 1 [] t = "Hot" -> 2

\* C4: assign_tier gives every score in [0, 150] exactly one tier, Cold for
\* 0-59, Warm for 60-99 and Hot for 100-150, and a higher score never gets a
\* lower tier.
C4_TierTotalMonotonic ==
    called = "assign_tier" =>
        /\ ret[1] = BandOf(arg[1])
        /\ ret[2] = BandOf(arg[2])
        /\ arg[1] <= arg[2] => TierRank(ret[1]) <= TierRank(ret[2])

\* C4's case: the two scores either side of the Cold/Warm boundary
C4_Witness ==
    /\ called = "assign_tier"
    /\ arg = <<59, 60>>
    /\ ret = <<"Cold", "Warm">>

\* C5: sanitizing twice gives the same lead score as sanitizing once, for
\* sanitize_input and for sanitize_form_data, truncated strings included.
C5_SanitizeTwiceSameScore ==
    called \in {"sanitize_input", "sanitize_form_data"}
        => ret.score_twice = ret.score_once

\* C6: when validation fails the handler answers 400 with the field errors,
\* and neither scores, nor assigns a tier, nor persists a row, nor touches
\* the submission tracker.
C6_InvalidIsRejectedUntouched ==
    (validation_result # None /\ ~validation_result.valid) =>
        /\ pc = "done"
        /\ response.status = 400
        /\ response.field_errors = validation_result.errors
        /\ DOMAIN response.field_errors # {}
        /\ ~Called("calculate_lead_score")
        /\ ~Called("assign_tier")
        /\ ~Called("ROISubmission")
        /\ submission = None
        /\ db = <<>>
        /\ submission_tracker = NewTracker

\* C6's case: a request rejected for its e-mail address
C6_Witness ==
    /\ pc = "done"
    /\ validation_result # None
    /\ ~validation_result.valid
    /\ response.status = 400
    /\ "email" \in DOMAIN response.field_errors

\* the order of the pipeline's steps
PipelineOrder ==
    <<"sanitize_input", "validate_roi_submission", "calculate_lead_score",
      "assign_tier", "ROISubmission", "commit", "record_success">>

\* C7: the steps of the pipeline happen in the order sanitize, validate,
\* score, assign tier, persist, record, none before the one ahead of it has
\* completed, and what is validated and scored is the sanitized request.
C7_PipelineOrder ==
    /\ Len(calls) <= Len(PipelineOrder)
    /\ \A i \in DOMAIN calls : calls[i] = PipelineOrder[i]
    /\ Called("sanitize_input") => data = sanitize_input(req)
    /\ validation_result # None
          => validation_result = validate_roi_submission(sanitize_input(req)).v
    /\ Called("assign_tier")
          => /\ lead_score = calculate_lead_score(sanitize_input(req)).v
             /\ tier = assign_tier(lead_score)

\* C7's case: a request that sanitizing changes goes through every step
C7_Witness ==
    /\ pc = "done"
    /\ calls = PipelineOrder
    /\ data # req
    /\ response.status = 200


----------------------------------------------------------------------------
(* Properties: the validators                                              *)

\* C8: a result returned by validate_roi_submission or by
\* validate_calculation_data has valid true exactly when its errors mapping
\* is empty.
C8_ValidIffNoErrors ==
    (called \in {"validate_roi_submission", "validate_calculation_data"} /\ ret.ok)
        => (ret.v.valid <=> DOMAIN ret.v.errors = {})

\* C8's case: validate_roi_submission returns errors on optional fields only
C8_Witness ==
    /\ called = "validate_roi_submission"
    /\ ret.ok
    /\ ~ret.v.valid
    /\ DOMAIN ret.v.errors \cap {"first_name", "last_name", "email"} = {}
    /\ DOMAIN ret.v.errors # {}

\* x is a string that is empty once trimmed
Blank(x) == x.t = "str" /\ Strip(x.s) = <<>>

\* the messages of the required-field rule for field f
RequiredMessages(f) == {Title(f) \o <<" ","i","s"," ","r","e","q","u","i","r","e","d">>,
                        Title(f) \o <<" ","c","a","n","n","o","t"," ","b","e"," ","e","m","p","t","y">>}

\* C9: validate_roi_submission records an error under the key of each of
\* the six required fields that is absent or a blank string, and no
\* required-field error for one that is present and not blank.
C9_RequiredFields ==
    (called = "validate_roi_submission" /\ ret.ok) =>
        \A i \in DOMAIN required_fields :
            LET f == required_fields[i]
            IN IF f \notin DOMAIN arg.kv \/ Blank(arg.kv[f])
               THEN f \in DOMAIN ret.v.errors
               ELSE f \in DOMAIN ret.v.errors
                       => ret.v.errors[f] \notin RequiredMessages(f)

\* the fields of d on which some check of validate_roi_submission, taken
\* alone, sets an error
Violated(d) ==
    {StepField[i] : i \in {j \in Steps :
        LET r == Step(j, Get(d, StepField[j], None)) IN r.ok /\ DOMAIN r.v # {}}}

\* C10: the errors mapping validate_roi_submission returns has a key for
\* every field that violates a rule, and for no other: an error on one
\* field does not keep another field from being checked.
C10_AllErrorsCollected ==
    (called = "validate_roi_submission" /\ ret.ok)
        => DOMAIN ret.v.errors = Violated(arg)

\* C10's case: rules on two distinct fields are violated and both reported
C10_Witness ==
    /\ called = "validate_roi_submission"
    /\ ret.ok
    /\ Cardinality(Violated(arg)) >= 2
    /\ Violated(arg) \subseteq DOMAIN ret.v.errors


----------------------------------------------------------------------------
(* Properties: the financial ranges and the sanitizers                     *)

\* the documented closed range of each financial field
DocumentedRange ==
    [monthly_revenue |-> <<1000, 10000000>>,
     average_order_value |-> <<1, 100000>>,
     monthly_orders |-> <<1, 1000000>>]

\* the outcome r of float(x) is a number within [lo, hi]
NumberWithin(r, lo, hi) == r.ok /\ r.v.k = "fin" /\ FGe(r.v, lo) /\ FLe(r.v, hi)

\* C11: validate_roi_submission leaves a financial field without an error
\* exactly when its value is a number within the field's closed range
\* (monthly_revenue [1000, 10000000], average_order_value [1, 100000],
\* monthly_orders [1, 1000000]); a value that is no number gets an error
\* under the field's key.
C11_FinancialRanges ==
    (called = "validate_roi_submission" /\ ret.ok) =>
        \A f \in DOMAIN DocumentedRange :
            (f \notin DOMAIN ret.v.errors)
                <=> NumberWithin(ToFloat(Get(arg, f, None)),
                                 DocumentedRange[f][1], DocumentedRange[f][2])

\* y has the shape of x, its string leaves hold none of < > " ' and at most
\* 1000 characters, and its other leaves are those of x
RECURSIVE SanitizedShape(_, _)
SanitizedShape(x, y) ==
    CASE x.t = "dict" ->
            /\ y.t = "dict"
            /\ DOMAIN y.kv = DOMAIN x.kv
            /\ \A key \in DOMAIN x.kv : SanitizedShape(x.kv[key], y.kv[key])
      [] x.t = "list" ->
            /\ y.t = "list"
            /\ Len(y.xs) = Len(x.xs)
            /\ \A i \in 1..Len(x.xs) : SanitizedShape(x.xs[i], y.xs[i])
      [] x.t = "str" ->
            /\ y.t = "str"
            /\ Len(y.s) <= 1000
            /\ \A i \in 1..Len(y.s) : y.s[i] \notin {"<", ">", "\"", "'"}
      [] OTHER -> y = x

\* C12: sanitize_input returns, for any nesting of mappings, sequences and
\* scalars, a structure of the same shape (same keys, same lengths) whose
\* string leaves contain none of < > " ' and are at most 1000 long, and
\* whose other leaves are unchanged.
C12_SanitizeInputShape ==
    called = "sanitize_input" => SanitizedShape(arg, ret.once)

\* C12's case: the documented scenario, and a nested string that is both
\* stripped and truncated
C12_Witness ==
    /\ called = "sanitize_input"
    /\ arg.t = "list"
    /\ Len(arg.xs) = 2
    /\ arg.xs[1].t = "str"
    /\ arg.xs[2] = PyDict([name |-> PyStr(<<"<","s","c","r","i","p","t",">","b","o","b","<","/","s","c","r","i","p","t",">">>)])
    /\ ret.once.xs[2] = PyDict([name |-> PyStr(<<"s","c","r","i","p","t","b","o","b","/","s","c","r","i","p","t">>)])
    /\ Len(arg.xs[1].s) = 1003
    /\ Len(ret.once.xs[1].s) = 1000

\* the documented length limit of a string field
DocumentedLimit(key) ==
    CASE key \in {"first_name", "last_name"} -> 50
      [] key = "email" -> 255
      [] key \in {"company", "website"} -> 200
      [] key = "phone" -> 20
      [] OTHER -> 500

\* every string field of the form d is within its documented limit
WithinLimits(d) ==
    \A key \in DOMAIN d.kv :
        d.kv[key].t = "str" => Len(d.kv[key].s) <= DocumentedLimit(key)

\* C13: once the handler has sanitized the form data, every string field
\* respects its field-specific limit: names 50, email 255, company and
\* website 200, phone 20, any other field 500.
C13_FieldLimits ==
    (Called("sanitize_input") /\ data.t = "dict") => WithinLimits(data)


----------------------------------------------------------------------------
(* Properties: the band tables of the sub-scorers                          *)

\* the field f of the form d as a number, 0 when it is missing
Number(d, f) == ToFloat(Get(d, f, PyInt(0))).v

\* the points of the first band <<threshold, points>> whose Test the number
\* x passes, 0 when it passes none
FirstBand(x, bands, Test(_, _)) ==
    IF \E i \in DOMAIN bands : Test(x, bands[i][1])
    THEN bands[CHOOSE i \in DOMAIN bands :
                  /\ Test(x, bands[i][1])
                  /\ \A j \in 1..(i - 1) : ~Test(x, bands[j][1])][2]
    ELSE 0

\* the documented bands, highest points first
RevenueBands == <<<<100000, 25>>, <<50000, 20>>, <<25000, 15>>, <<10000, 10>>, <<5000, 5>>>>
OrdersBands == <<<<1000, 15>>, <<500, 12>>, <<200, 8>>, <<50, 4>>>>
AovBands == <<<<200, 10>>, <<100, 8>>, <<50, 5>>, <<25, 2>>>>
ConversionBands == <<<<2, 15>>, <<3, 12>>, <<5, 8>>, <<8, 4>>>>
AbandonmentBands == <<<<70, 15>>, <<60, 12>>, <<50, 8>>, <<40, 4>>>>
ManualHoursBands == <<<<20, 10>>, <<10, 7>>, <<5, 4>>, <<1, 1>>>>
AdSpendBands == <<<<10000, 10>>, <<5000, 8>>, <<2000, 5>>, <<500, 2>>>>

\* the points fall as the thresholds fall: a larger metric never earns less
Descending(bands) ==
    \A i, j \in DOMAIN bands :
        i < j => (bands[i][1] > bands[j][1] /\ bands[i][2] > bands[j][2])

\* C14: the behavioral sub-score is the sum of one band value per metric,
\* the first band, highest threshold first, whose inclusive lower bound the
\* metric reaches, and 0 below the lowest; bands are not summed and the
\* contribution of a metric never falls as the metric grows.
C14_BehavioralBands ==
    called = "calculate_behavioral_score" =>
        /\ ret.ok
        /\ ret.v = FirstBand(Number(arg, "monthly_revenue"), RevenueBands, FGe)
                   + FirstBand(Number(arg, "monthly_orders"), OrdersBands, FGe)
                   + FirstBand(Number(arg, "average_order_value"), AovBands, FGe)
        /\ Descending(RevenueBands) /\ Descending(OrdersBands) /\ Descending(AovBands)

\* C14's case: revenue 49999.99 falls in the 25000 band, orders 1000 and
\* average order value 200 sit on their top thresholds
C14_Witness ==
    /\ called = "calculate_behavioral_score"
    /\ "monthly_revenue" \in DOMAIN arg.kv
    /\ arg.kv["monthly_revenue"] = PyFloat(4999999, 2)
    /\ arg.kv["monthly_orders"] = PyInt(1000)
    /\ arg.kv["average_order_value"] = PyInt(200)
    /\ ret = Return(40)

\* the conversion bands count only for a rate above 0
ConversionPoints(x) == IF FGt(x, 0) THEN FirstBand(x, ConversionBands, FLt) ELSE 0

\* C15: the fit sub-score adds, for conversion_rate above 0, the first band
\* whose strict upper bound it is under (<2 15, <3 12, <5 8, <8 4); for
\* cart_abandonment_rate the first band whose strict lower bound it exceeds
\* (>70 15, >60 12, >50 8, >40 4); for manual_hours_per_week and
\* monthly_ad_spend the first band whose inclusive lower bound they reach.
C15_FitBands ==
    called = "calculate_fit_score" =>
        /\ ret.ok
        /\ ret.v = ConversionPoints(Number(arg, "conversion_rate"))
                   + FirstBand(Number(arg, "cart_abandonment_rate"), AbandonmentBands, FGt)
                   + FirstBand(Number(arg, "manual_hours_per_week"), ManualHoursBands, FGe)
                   + FirstBand(Number(arg, "monthly_ad_spend"), AdSpendBands, FGe)

\* C15's case: conversion 1.99 is under 2, abandonment 70 does not exceed 70
C15_Witness ==
    /\ called = "calculate_fit_score"
    /\ "conversion_rate" \in DOMAIN arg.kv
    /\ arg.kv["conversion_rate"] = PyFloat(199, 2)
    /\ arg.kv["cart_abandonment_rate"] = PyInt(70)
    /\ ret = Return(27)

\* the points of the category x in a table, 0 when x is no key of it
TableTerm(table, x) == IF x.t = "str" /\ x.s \in DOMAIN table THEN table[x.s] ELSE 0

\* C16: the demographic sub-score is the sum of the company_size, industry
\* and business_stage table entries plus 10 for a non-empty website; a
\* category that is missing or no key of its table adds 0 and never makes
\* the call raise.
C16_DemographicLookups ==
    called = "calculate_demographic_score" =>
        /\ ret.ok
        /\ ret.v = TableTerm(size_scores, Get(arg, "company_size", None))
                   + TableTerm(industry_scores, Get(arg, "industry", None))
                   + TableTerm(stage_scores, Get(arg, "business_stage", None))
                   + (IF Truthy(Get(arg, "website", None)) THEN 10 ELSE 0)

\* the optional fields the scorers read
OptionalScored ==
    {"company_size", "industry", "business_stage", "website", "conversion_rate",
     "cart_abandonment_rate", "manual_hours_per_week", "monthly_ad_spend"}

\* C17: a form without optional fields is scored without error, each
\* missing field counting as 0: the demographic and fit sub-scores are 0 and
\* the score is the behavioral sub-score; monthly_revenue 3000,
\* monthly_orders 10, average_order_value 10 gives score 0 and tier Cold.
C17_MissingOptionalIsZero ==
    (called = "calculate_lead_score" /\ DOMAIN arg.kv \cap OptionalScored = {}) =>
        /\ ret.demographic = Return(0)
        /\ ret.fit = Return(0)
        /\ ret.behavioral.ok
        /\ ret.score = ret.behavioral
        /\ (/\ Get(arg, "monthly_revenue", None) = PyInt(3000)
            /\ Get(arg, "monthly_orders", None) = PyInt(10)
            /\ Get(arg, "average_order_value", None) = PyInt(10))
              => (ret.score = Return(0) /\ assign_tier(ret.score.v) = "Cold")

\* C17's case: the documented scenario
C17_Witness ==
    /\ called = "calculate_lead_score"
    /\ DOMAIN arg.kv \cap OptionalScored = {}
    /\ Get(arg, "monthly_revenue", None) = PyInt(3000)
    /\ Get(arg, "monthly_orders", None) = PyInt(10)
    /\ Get(arg, "average_order_value", None) = PyInt(10)
    /\ ret.score = Return(0)

\* the documented form that attains the maximum
MaxScenario ==
    [company_size |-> PyStr(<<"5","1","-","2","0","0">>), industry |-> PyStr(<<"E","-","c","o","m","m","e","r","c","e">>),
     business_stage |-> PyStr(<<"G","r","o","w","t","h">>), monthly_revenue |-> PyInt(150000),
     monthly_orders |-> PyInt(1200), average_order_value |-> PyInt(250),
     conversion_rate |-> PyFloat(15, 1), cart_abandonment_rate |-> PyInt(75),
     manual_hours_per_week |-> PyInt(25), monthly_ad_spend |-> PyInt(12000)]

IsMaxScenario(d) ==
    /\ \A f \in DOMAIN MaxScenario : f \in DOMAIN d.kv /\ d.kv[f] = MaxScenario[f]
    /\ Truthy(Get(d, "website", None))

\* C18: no score exceeds 150, and the documented form (company_size 51-200,
\* industry E-commerce, business_stage Growth, a website, revenue 150000,
\* orders 1200, average order value 250, conversion 1.5, abandonment 75,
\* manual hours 25, ad spend 12000) attains it with 50 + 50 + 50 and is Hot.
C18_MaximumAttained ==
    called = "calculate_lead_score" =>
        /\ ret.score.ok => ret.score.v <= 150
        /\ IsMaxScenario(arg) =>
              /\ ret.demographic = Return(50)
              /\ ret.behavioral = Return(50)
              /\ ret.fit = Return(50)
              /\ ret.score = Return(150)
              /\ assign_tier(ret.score.v) = "Hot"

\* C18's case: the documented form has been scored
C18_Witness ==
    /\ called = "calculate_lead_score"
    /\ IsMaxScenario(arg)
    /\ ret.score = Return(150)

----------------------------------------------------------------------------
(* Follow-up lookups and the calculation route *)

\* the documented follow-up of a tier, as text and in hours: the Cold entry
\* for whatever is not Hot or Warm
DocumentedFollowUp(x) ==
    IF x = PyStr(<<"H","o","t">>) THEN [timing |-> <<"1"," ","h","o","u","r">>, hours |-> 1]
    ELSE IF x = PyStr(<<"W","a","r","m">>) THEN [timing |-> <<"2","4"," ","h","o","u","r","s">>, hours |-> 24]
    ELSE [timing |-> <<"3"," ","d","a","y","s">>, hours |-> 72]

\* C19: every follow-up lookup returns, without raising, 1 hour for Hot,
\* 24 hours for Warm, 3 days (72 hours) for Cold, and the Cold entry for any
\* value that is not one of the three tiers.
C19_FollowUpLookups ==
    /\ called = "get_follow_up_priority" =>
         ret.ok /\ ret.v.timing = DocumentedFollowUp(arg).timing
    /\ called \in {"get_follow_up_time", "EmailService.get_follow_up_time"} =>
         ret.ok /\ ret.v = DocumentedFollowUp(arg).timing
    /\ called = "create_follow_up_task" =>
         /\ ret.ok
         /\ "hours_delay" \in DOMAIN ret.v
         /\ ret.v.hours_delay = DocumentedFollowUp(arg).hours

\* the monthly_revenue of a request body, null when there is none
RevenueOf(d) == IF d.t = "dict" THEN Get(d, "monthly_revenue", None) ELSE None

\* present and numeric
NumericRevenue(d) == RevenueOf(d) # None /\ ToFloat(RevenueOf(d)).ok

\* present, numeric, greater than 0 and at most 10,000,000
AcceptableRevenue(d) ==
    /\ NumericRevenue(d)
    /\ FGt(ToFloat(RevenueOf(d)).v, 0)
    /\ FLe(ToFloat(RevenueOf(d)).v, 10000000)

AboveCeiling(d) ==
    NumericRevenue(d) /\ FGt(ToFloat(RevenueOf(d)).v, 10000000)

\* present and not empty, but not a number
NotNumeric(d) == Truthy(RevenueOf(d)) /\ ~ToFloat(RevenueOf(d)).ok

\* the validator's part of C20, on a request body that is an object
ValidatorAccepts ==
    (called = "validate_calculation_data" /\ arg.t = "dict") =>
        /\ ret.ok
        /\ ret.v.valid <=> AcceptableRevenue(arg)
        /\ ~ret.v.valid => "monthly_revenue" \in DOMAIN ret.v.errors
        /\ AboveCeiling(arg) =>
             /\ "monthly_revenue" \in DOMAIN ret.v.errors
             /\ ret.v.errors.monthly_revenue = <<"M","o","n","t","h","l","y"," ","r","e","v","e","n","u","e"," ","s","e","e","m","s"," ","u","n","u","s","u","a","l","l","y"," ","h","i","g","h">>
        /\ NotNumeric(arg) =>
             /\ "monthly_revenue" \in DOMAIN ret.v.errors
             /\ ret.v.errors.monthly_revenue = <<"M","o","n","t","h","l","y"," ","r","e","v","e","n","u","e"," ","m","u","s","t"," ","b","e"," ","a"," ","v","a","l","i","d"," ","n","u","m","b","e","r">>

\* the route's part of C20, the revenue read after sanitizing as the route does
RouteAccepts ==
    called = "calculate_roi" =>
        IF Truthy(arg) /\ AcceptableRevenue(sanitize_input(arg))
        THEN ret.status = 200 /\ "projections" \in DOMAIN ret
        ELSE ret.status = 400 /\ "projections" \notin DOMAIN ret

\* C20: a calculation request is accepted only if monthly_revenue is
\* present, numeric, greater than 0 and at most 10,000,000; every other
\* request is rejected with a validation error on monthly_revenue ('seems
\* unusually high' above the ceiling, 'valid number' for a non-number) and
\* neither produces projections nor a server error.
C20_CalculationAccepts == ValidatorAccepts /\ RouteAccepts

----------------------------------------------------------------------------
(* The rate limiter *)

\* request i of the log passed the limit check
Accepted(i) == log[i].outcome \in {"accepted", "handled"}

\* the accepted requests of a client stamped in [from, from + window_seconds]
AcceptedWithin(ip, from) ==
    Cardinality({i \in DOMAIN log :
                   /\ Accepted(i)
                   /\ log[i].ip = ip
                   /\ log[i].time >= from
                   /\ log[i].time <= from + window_seconds})

\* no interval of window_seconds holds more than max_requests accepted
\* requests of one client (an interval may start at a request's timestamp)
WindowLimit ==
    \A i \in DOMAIN log : AcceptedWithin(log[i].ip, log[i].time) <= limit.max_requests

QueueBounded ==
    \A ip \in DOMAIN rate_limit_storage :
        Len(rate_limit_storage[ip]) <= limit.max_requests

\* C23: served one at a time under a non-decreasing clock, a wrapper accepts
\* at most max_requests requests of one client in any interval of
\* window_minutes*60 seconds, and no client's timestamp queue ever holds
\* more than max_requests entries.
C23_SequentialLimit == WindowLimit /\ QueueBounded

\* a client with a full window was refused
C23_Witness ==
    \E i \in DOMAIN log :
        /\ limit.max_requests >= 1
        /\ log[i].outcome = "429"
        /\ AcceptedWithin(log[i].ip, log[i].time - window_seconds) = limit.max_requests

\* C24: with the wrappers of concurrent requests interleaved, the requests
\* of one client accepted within one window still never exceed max_requests.
C24_ConcurrentLimit ==
    \A i \in DOMAIN log :
        Accepted(i) => AcceptedWithin(log[i].ip, log[i].time) <= limit.max_requests

\* the thread th takes this step
Steps_of(th) == threads'[th] # threads[th]

\* the client whose request th is serving in this step
Client(th) ==
    IF threads[th].pc = "idle" THEN threads'[th].client_ip ELSE threads[th].client_ip

\* th's step neither creates, changes nor removes another client's deque
OthersUntouched(th) ==
    \A ip \in Addrs \ {Client(th)} :
        /\ (ip \in DOMAIN rate_limit_storage') = (ip \in DOMAIN rate_limit_storage)
        /\ Queue(rate_limit_storage', ip) = Queue(rate_limit_storage, ip)

\* th's step answers 429
Rejects(th) ==
    /\ threads[th].pc = "check"
    /\ log'[threads[th].n].outcome = "429"

\* a refused request has returned: no thread is still serving it
RefusedIsOver ==
    \A i \in DOMAIN log :
        log[i].outcome = "429" => \A th \in Threads : threads[th].n # i

\* C25: a request the limiter rejects is answered 429 without the wrapped
\* handler being called or a timestamp appended, and a request of one client
\* never reads into being, changes or removes another client's timestamps.
C25_RejectionFrame ==
    /\ [][\A th \in Threads :
            Steps_of(th) =>
              /\ OthersUntouched(th)
              /\ Rejects(th) =>
                   /\ rate_limit_storage' = rate_limit_storage
                   /\ threads'[th] = IdleThread]_vars
    /\ []RefusedIsOver

\* a client was refused while another client had timestamps recorded
C25_Witness ==
    \E i \in DOMAIN log :
        /\ log[i].outcome = "429"
        /\ \E ip \in DOMAIN rate_limit_storage :
             ip # log[i].ip /\ rate_limit_storage[ip] # <<>>

\* request i found its client at the limit with the oldest recorded
\* timestamp more than a window old
ArrivedAfterWindow(i) ==
    /\ limit.max_requests >= 1
    /\ Len(log[i].queue) >= limit.max_requests
    /\ log[i].time - log[i].queue[1] > window_seconds

\* C26: served one at a time, a client at its limit is not refused on a
\* request arriving more than window_minutes*60 seconds after its oldest
\* recorded accepted request: the expired timestamps are evicted before the
\* limit is checked, so no client stays locked out.
C26_NoLockout ==
    \A i \in DOMAIN log :
        ArrivedAfterWindow(i) => log[i].outcome \in {"pending", "accepted", "handled"}

C26_Witness ==
    \E i \in DOMAIN log : ArrivedAfterWindow(i) /\ log[i].outcome = "handled"

----------------------------------------------------------------------------
(* The routes, the tracker, the persisted record *)

\* "Rate limiting (10 req/min per IP)"
AdvertisedLimit == 10
AdvertisedWindow == 60

\* request i of a client has AdvertisedLimit requests of the same client in
\* the AdvertisedWindow seconds before it
OverLimit(ip, i) ==
    /\ i > AdvertisedLimit
    /\ log[ip][i] - log[ip][i - AdvertisedLimit] < AdvertisedWindow

\* C21: every request to /calculate and /submit passes a per-client limit of
\* 10 requests a minute: the 11th request of one client within a minute is
\* answered 429 and its view function does not run.
C21_EndpointsRateLimited ==
    (threads[1].pc = "view" /\ OverLimit(threads[1].client_ip, threads[1].n)) =>
        /\ pc = "done"
        /\ response.status = 429
        /\ calls = <<>>

\* a / b * factor lies in [lo, hi]
QuotientWithin(q, lo, hi) ==
    /\ q.num * q.factor >= lo * q.den
    /\ q.num * q.factor <= hi * q.den

\* C27: after any sequence of record_success and record_error calls,
\* success_count + error_count is the number of tracked submissions, and
\* get_stats reports a success_rate in [0, 100], 0 when nothing has been
\* recorded.
C27_TrackerCounts ==
    /\ submission_tracker.success_count + submission_tracker.error_count
         = Cardinality(DOMAIN submission_tracker.submissions)
    /\ called = "get_stats" =>
         /\ ret.total_submissions = ret.success_count + ret.error_count
         /\ QuotientWithin(ret.success_rate, 0, 100)
         /\ (ret.success_count + ret.error_count = 0) => ret.success_rate.num = 0

\* what the invocation of a frame returns when nothing else runs, on the
\* mapping (or the score) it was passed
Alone(frame) ==
    CASE frame.func = "sanitize_input" -> Return(sanitize_input(frame.given))
      [] frame.func = "validate_roi_submission" -> validate_roi_submission(frame.given)
      [] frame.func = "calculate_lead_score" -> calculate_lead_score(frame.given)
      [] frame.func = "assign_tier" -> Return(assign_tier(frame.given))

\* the step is a statement of an invocation of one of the four functions
Invokes == \E w \in Workers : threads'[w] # threads[w]

SharedLeftAlone ==
    /\ rate_limit_storage' = rate_limit_storage
    /\ submission_tracker' = submission_tracker
    /\ monitors' = monitors

(* C22: the sanitizer, the validator, the scoring engine and the tier       *)
(* assigner are stateless.  No statement of an invocation changes the       *)
(* mapping it was passed, rate_limit_storage, the submission tracker or     *)
(* the email and HubSpot monitors; and however the statements of two        *)
(* invocations on the same mapping interleave with each other and with the  *)
(* requests, records and counters written meanwhile, each invocation        *)
(* returns what it returns when it runs alone.                              *)
C22_Stateless ==
    /\ [][/\ arg' = arg
          /\ Invokes => SharedLeftAlone]_vars
    /\ [](\A w \in Workers :
             threads[w].pc = "returned" => threads[w].ret = Alone(threads[w]))

\* the validator has returned its errors for a form after statements of it
\* ran while the sanitizer was running on the same form; the sanitizer is
\* still in the middle of the form, a request is inside the wrapper with its
\* deque stored, and a submission or a counter has been recorded
C22_Witness ==
    \E w \in Workers, v \in Workers :
        /\ threads[w].pc = "returned"
        /\ threads[w].func = "validate_roi_submission"
        /\ threads[w].overlapped
        /\ threads[w].ret.ok /\ ~threads[w].ret.v.valid
        /\ threads[v].pc = "running"
        /\ threads[v].func = "sanitize_input"
        /\ DOMAIN threads[v].local # {}
        /\ DOMAIN threads[v].local # DOMAIN arg.kv
        /\ \E th \in Threads : Running(th)
        /\ rate_limit_storage # <<>>
        /\ Activity = MaxShared

\* how many times the running request has called f
TimesCalled(f) == Cardinality({i \in 1..Len(calls) : calls[i] = f})

PersistedScores ==
    \A i \in 1..Len(db) :
        /\ db[i].id = i
        /\ db[i].lead_score \in 0..MaxScore
        /\ db[i].lead_tier = assign_tier(db[i].lead_score)

ResponseAsPersisted ==
    (pc = "done" /\ response.status = 200) =>
        /\ response.submission_id = Len(db)
        /\ response.lead_score = db[Len(db)].lead_score
        /\ response.tier = db[Len(db)].lead_tier

RecordedOncePerRow ==
    /\ submission_tracker.error_count = 0
    /\ DOMAIN submission_tracker.submissions = 1..submission_tracker.success_count
    /\ submission_tracker.success_count = Len(db) - (IF pc = "record" THEN 1 ELSE 0)
    /\ TimesCalled("record_success") <= 1
    /\ \A i \in 1..Len(calls) :
           calls[i] = "record_success" => i > 1 /\ calls[i - 1] = "commit"
    /\ pc = "done" => (TimesCalled("record_success") = 1 <=> response.status = 200)

(* C28: every row persisted by the submit handler has a lead_score in       *)
(* [0, 150] and the lead_tier assign_tier gives for that score; the         *)
(* response that reports success carries the score and tier of the row it   *)
(* persisted; record_success is called once for each persisted row, after   *)
(* the commit, and never for a request that persisted nothing.              *)
C28_PersistedRecord ==
    /\ PersistedScores
    /\ ResponseAsPersisted
    /\ RecordedOncePerRow

\* a submission has been committed, recorded and answered
C28_Witness ==
    /\ pc = "done"
    /\ response.status = 200
    /\ Len(db) = 1
    /\ db[1].lead_score > 0
    /\ submission_tracker.success_count = 1
    /\ TimesCalled("record_success") = 1

\* the hours a follow-up text stands for
Hours(text) ==
    IF text = <<"1"," ","h","o","u","r">> THEN 1
    ELSE IF text = <<"2","4"," ","h","o","u","r","s">> THEN 24
    ELSE IF text = <<"3"," ","d","a","y","s">> THEN 72
    ELSE -1

\* the four lookups of one tier return, and give the documented delay
Agree(f) ==
    /\ f.tier \in {"Hot", "Warm", "Cold"}
    /\ f.priority.ok /\ f.route.ok /\ f.email.ok /\ f.hubspot.ok
    /\ f.priority.v.timing = DocumentedFollowUp(TierStr(f.tier)).timing
    /\ f.route.v = f.priority.v.timing
    /\ f.email.v = f.priority.v.timing
    /\ f.hubspot.v = DocumentedFollowUp(TierStr(f.tier)).hours
    /\ Hours(f.route.v) = f.hubspot.v

(* C29: on every tier assign_tier produces, get_follow_up_priority's        *)
(* timing, the route's get_follow_up_time, EmailService.get_follow_up_time  *)
(* and the HubSpot task delay agree: 1 hour for Hot, 24 hours for Warm,     *)
(* 3 days (72 hours) for Cold; of two scores, the one with the higher tier  *)
(* never has the longer delay, in any of the four.                          *)
C29_TierFollowUpsAgree ==
    called = "follow_ups" =>
        /\ Agree(ret[1])
        /\ Agree(ret[2])
        /\ TierRank(ret[1].tier) >= TierRank(ret[2].tier) =>
              /\ ret[1].hubspot.v <= ret[2].hubspot.v
              /\ Hours(ret[1].route.v) <= Hours(ret[2].route.v)
              /\ Hours(ret[1].email.v) <= Hours(ret[2].email.v)
              /\ Hours(ret[1].priority.v.timing) <= Hours(ret[2].priority.v.timing)

\* a Hot score beside a Cold one: 1 hour against 72
C29_Witness ==
    /\ called = "follow_ups"
    /\ ret[1].tier = "Hot"
    /\ ret[2].tier = "Cold"
    /\ ret[1].hubspot.v = 1
    /\ ret[2].hubspot.v = 72
    /\ ret[1].route.v = <<"1"," ","h","o","u","r">>

CategoryFields == {"company_size", "industry", "business_stage"}

\* the category f of the scored form is there and is not empty
NonEmpty(f) == f \in DOMAIN ret.data.kv /\ Truthy(ret.data.kv[f])

SameKeys ==
    /\ valid_industries = DOMAIN industry_scores
    /\ valid_stages = DOMAIN stage_scores
    /\ valid_sizes = DOMAIN size_scores
    /\ Cardinality(valid_industries) = 12
    /\ Cardinality(valid_stages) = 4
    /\ Cardinality(valid_sizes) = 5

(* C30: the validator's enumerations and the scoring tables have the same   *)
(* keys: 12 industries, 4 business stages, 5 company sizes.  Every          *)
(* non-empty industry, business_stage or company_size that passes           *)
(* validation is found in its table with a strictly positive number,       *)
(* never the default 0, and the demographic score the scorer returns        *)
(* includes that number.                                                    *)
C30_EnumerationsMatchTables ==
    /\ SameKeys
    /\ (called # "none" /\ IsValid(ret.validation)) =>
          \A f \in CategoryFields :
              NonEmpty(f) =>
                  /\ ret[f].ok
                  /\ ret[f].v > 0
                  /\ ret.demographic.ok => ret.demographic.v >= ret[f].v

\* a form with the three categories, changed by the sanitizer, has passed
\* validation and scored on each
C30_Witness ==
    /\ called = "sanitize_validate_and_score"
    /\ ret.data # arg
    /\ IsValid(ret.validation)
    /\ \A f \in CategoryFields : NonEmpty(f) /\ ret[f].v > 0
    /\ ret.demographic.v = ret.company_size.v + ret.industry.v + ret.business_stage.v

====
